---------------------------- MODULE Spec2Model ----------------------------
(***************************************************************************)
(* A model of scripts/phi_linter.py: the PHI pattern catalog, the          *)
(* false-positive filter, the per-file scanner, the directory traversal,   *)
(* the report writer and the run entry point.                              *)
(*                                                                         *)
(* Text is a sequence of one-character strings, so that the string         *)
(* operations of the program (strip, lower, startswith, in, the f-strings  *)
(* and re.finditer) are computed on characters as the program computes     *)
(* them.                                                                   *)
(***************************************************************************)
EXTENDS Integers, Sequences, FiniteSets, TLC

(***************************************************************************)
(* Bounds of the model.                                                    *)
(***************************************************************************)
MaxFiles == 2      \* entries yielded by one rglob traversal
MaxCalls == 2      \* public-method calls made on one PHILinter
NumWorkers == 2    \* threads that share one linter

(***************************************************************************)
(* Characters and the str methods the program uses.                        *)
(***************************************************************************)
SetOf(s) == {s[i] : i \in 1..Len(s)}

UpperSeq == <<"A","B","C","D","E","F","G","H","I","J","K","L","M","N","O","P","Q","R","S","T","U","V","W","X","Y","Z">>
LowerSeq == <<"a","b","c","d","e","f","g","h","i","j","k","l","m","n","o","p","q","r","s","t","u","v","w","x","y","z">>
Upper == SetOf(UpperSeq)
Lower == SetOf(LowerSeq)
Digit == SetOf(<<"0","1","2","3","4","5","6","7","8","9">>)
Alpha == Upper \cup Lower
Alnum == Alpha \cup Digit
Space == SetOf(<<" ","\t","\n">>) \cup {"\r", "\f"}
WordChar == Alnum \cup {"_"}

ToLower == [c \in Upper |-> LowerSeq[CHOOSE i \in 1..Len(UpperSeq) : UpperSeq[i] = c]]
ToUpper == [c \in Lower |-> UpperSeq[CHOOSE i \in 1..Len(LowerSeq) : LowerSeq[i] = c]]

\* str.lower() on one character and on a string
LowerChar(c) == IF c \in Upper THEN ToLower[c] ELSE c
StrLower(s) == [i \in 1..Len(s) |-> LowerChar(s[i])]

\* the other case of a cased character (used by re.IGNORECASE)
SwapCase(c) == IF c \in Upper THEN ToLower[c] ELSE IF c \in Lower THEN ToUpper[c] ELSE c

\* s.startswith(pre)
StartsWith(s, pre) == Len(pre) <= Len(s) /\ SubSeq(s, 1, Len(pre)) = pre

\* sub in s
Contains(s, sub) ==
    \E i \in 1..(Len(s) - Len(sub) + 1) : SubSeq(s, i, i + Len(sub) - 1) = sub

RECURSIVE LStrip(_)
LStrip(s) == IF s # <<>> /\ Head(s) \in Space THEN LStrip(Tail(s)) ELSE s

RECURSIVE RStrip(_)
RStrip(s) ==
    IF s # <<>> /\ s[Len(s)] \in Space THEN RStrip(SubSeq(s, 1, Len(s) - 1)) ELSE s

\* s.strip()
Strip(s) == RStrip(LStrip(s))

\* str(n) of a natural number
RECURSIVE Dec(_)
Dec(n) == IF n < 10 THEN <<<<"0","1","2","3","4","5","6","7","8","9">>[n + 1]>>
          ELSE Dec(n \div 10) \o <<<<"0","1","2","3","4","5","6","7","8","9">>[(n % 10) + 1]>>

(***************************************************************************)
(* pathlib: Path.name and Path.suffix of a path given as text.             *)
(***************************************************************************)
\* index of the last occurrence of character c in s, 0 when there is none
RFind(s, c) == IF \E i \in 1..Len(s) : s[i] = c
               THEN CHOOSE i \in 1..Len(s) : s[i] = c /\ \A j \in (i+1)..Len(s) : s[j] # c
               ELSE 0

PathName(path) == SubSeq(path, RFind(path, "/") + 1, Len(path))

PathSuffix(path) ==
    LET name == PathName(path)
        i == RFind(name, ".")
    IN IF 1 < i /\ i < Len(name) THEN SubSeq(name, i, Len(name)) ELSE <<>>

(***************************************************************************)
(* Regular expressions.  A pattern is a sequence of items; an item is a    *)
(* character class repeated greedily between lo and hi times (hi ignored   *)
(* when unbounded), the assertion \b, or a group of alternatives.  The     *)
(* catalog repeats single characters and classes only.                     *)
(***************************************************************************)
Rep(set, lo, hi) == <<[t |-> "cls", set |-> set, lo |-> lo, hi |-> hi, unbounded |-> FALSE, alts |-> <<>>]>>
AtLeast(set, lo) == <<[t |-> "cls", set |-> set, lo |-> lo, hi |-> lo, unbounded |-> TRUE, alts |-> <<>>]>>
One(set)  == Rep(set, 1, 1)
Opt(set)  == Rep(set, 0, 1)
Plus(set) == AtLeast(set, 1)
Star(set) == AtLeast(set, 0)
Lit(word) == [i \in 1..Len(word) |-> One({word[i]})[1]]
WB        == <<[t |-> "wb", set |-> {}, lo |-> 0, hi |-> 0, unbounded |-> FALSE, alts |-> <<>>]>>
Alt(alts) == <<[t |-> "alt", set |-> {}, lo |-> 0, hi |-> 0, unbounded |-> FALSE, alts |-> alts]>>
\* membership of a character in a class under re.IGNORECASE
CharIn(c, set) == c \in set \/ SwapCase(c) \in set

\* \b at position i (between s[i-1] and s[i])
AtBoundary(s, i) ==
    LET before == i > 1 /\ s[i-1] \in WordChar
        after  == i <= Len(s) /\ s[i] \in WordChar
    IN before # after

\* how many characters from position i on are in the class, at most cap
RECURSIVE RunLen(_, _, _, _, _)
RunLen(set, s, i, cap, unbounded) ==
    IF i <= Len(s) /\ (unbounded \/ cap > 0) /\ CharIn(s[i], set)
    THEN 1 + RunLen(set, s, i + 1, cap - 1, unbounded)
    ELSE 0

\* The backtracking matcher: the position after the first match of the
\* items at position i, in the order the re module tries them (greedy
\* repetition, alternatives left to right); 0 when there is no match.
RECURSIVE MatchHere(_, _, _)
RECURSIVE TryAlts(_, _, _, _)
RECURSIVE TryCounts(_, _, _, _, _)
MatchHere(items, s, i) ==
    IF items = <<>> THEN i
    ELSE LET it == Head(items)
             rest == Tail(items)
         IN CASE it.t = "wb"  -> IF AtBoundary(s, i) THEN MatchHere(rest, s, i) ELSE 0
              [] it.t = "alt" -> TryAlts(it.alts, rest, s, i)
              [] it.t = "cls" -> TryCounts(rest, s, i, RunLen(it.set, s, i, it.hi, it.unbounded), it.lo)
              [] OTHER -> 0
TryAlts(alts, rest, s, i) ==
    IF alts = <<>> THEN 0
    ELSE LET r == MatchHere(Head(alts) \o rest, s, i)
         IN IF r # 0 THEN r ELSE TryAlts(Tail(alts), rest, s, i)
TryCounts(rest, s, i, k, lo) ==
    IF k < lo THEN 0
    ELSE LET r == MatchHere(rest, s, i + k)
         IN IF r # 0 THEN r ELSE TryCounts(rest, s, i, k - 1, lo)

\* re.finditer(pattern, s, re.IGNORECASE): the non-overlapping matches left
\* to right, each as the matched text (match.group()) and its start.
RECURSIVE FindFrom(_, _, _)
FindFrom(p, s, pos) ==
    IF pos > Len(s) + 1 THEN <<>>
    ELSE LET e == MatchHere(p, s, pos)
         IN IF e = 0 THEN FindFrom(p, s, pos + 1)
            ELSE <<[start |-> pos, text |-> SubSeq(s, pos, e - 1)]>>
                 \o FindFrom(p, s, IF e > pos THEN e ELSE pos + 1)

FindIter(p, s) == FindFrom(p, s, 1)

(***************************************************************************)
(* _load_phi_patterns: the catalog, flattened in dict and list order.  A   *)
(* pattern text is named by its place in this listing; 0 names a text      *)
(* that re.compile rejects.                                                *)
(***************************************************************************)
Rule(category, pattern) == [category |-> category, pattern |-> pattern]

D69 == SetOf(<<"6","7","8","9">>)
D3 == Rep(Digit, 3, 3)
D4 == Rep(Digit, 4, 4)
D9 == Rep(Digit, 9, 9)
Name1 == One(Upper) \o Plus(Lower)                  \* [A-Z][a-z]+
IdTail == Plus(Alnum \cup {"-"})                    \* [A-Za-z0-9-]+
Words == Plus(Alnum \cup Space)                     \* [A-Za-z0-9\s]+
Sep == Star(Space) \o Opt({":"}) \o Star(Space)     \* \s*:?\s*
Date == Rep(Digit, 1, 2) \o One(SetOf(<<"/","-">>)) \o Rep(Digit, 1, 2)
        \o One(SetOf(<<"/","-">>)) \o Rep(Digit, 2, 4)    \* \d{1,2}[/-]\d{1,2}[/-]\d{2,4}
Patient == Alt(<<Lit(<<"P","a","t","i","e","n","t">>), Lit(<<"P","t">>) \o Opt({"."})>>)

PhonePatterns == <<
    WB \o One(D69) \o D9 \o WB,
    Lit(<<"+","9","1">>) \o One(D69) \o D9 \o WB,
    WB \o Lit(<<"9","1">>) \o One(D69) \o D9 \o WB,
    Lit(<<"(">>) \o D3 \o Lit(<<")">>) \o Star(Space) \o D3 \o Lit(<<"-">>) \o D4,
    D3 \o Lit(<<"-">>) \o D3 \o Lit(<<"-">>) \o D4,
    Rep(Digit, 10, 10) >>
EmailPatterns == <<
    WB \o Plus(Alnum \cup SetOf(<<".","_","%","+","-">>)) \o Lit(<<"@">>) \o Plus(Alnum \cup SetOf(<<".","-">>))
       \o Lit(<<".">>) \o AtLeast(Alpha \cup {"|"}, 2) \o WB >>
NamePatterns == <<
    WB \o Alt(<<Lit(<<"D","r">>) \o Opt({"."}), Lit(<<"D","o","c","t","o","r">>)>>) \o Plus(Space) \o Name1
       \o Plus(Space) \o Name1 \o WB,
    WB \o Patient \o Plus(Space) \o Name1 \o Plus(Space) \o Name1 \o WB,
    WB \o Name1 \o Plus(Space) \o Name1 \o Plus(Space) \o Name1 \o WB >>
MedicalIdPatterns == <<
    WB \o Lit(<<"M","R","N">>) \o Sep \o IdTail \o WB,
    WB \o Lit(<<"P","a","t","i","e","n","t">>) \o Star(Space) \o Lit(<<"I","D">>) \o Sep \o IdTail \o WB,
    WB \o Lit(<<"E","n","c","o","u","n","t","e","r">>) \o Star(Space) \o Lit(<<"I","D">>) \o Sep \o IdTail \o WB,
    WB \o Lit(<<"C","l","i","n","i","c">>) \o Star(Space) \o Lit(<<"I","D">>) \o Sep \o IdTail \o WB >>
AddressPatterns == <<
    WB \o Plus(Digit) \o Plus(Space) \o Plus(Alpha \cup Space)
       \o Alt(<<Lit(<<"S","t","r","e","e","t">>), Lit(<<"R","o","a","d">>), Lit(<<"A","v","e","n","u","e">>), Lit(<<"L","a","n","e">>),
                Lit(<<"C","o","l","o","n","y">>), Lit(<<"N","a","g","a","r">>), Lit(<<"P","u","r">>), Lit(<<"P","u","r","a">>)>>) \o WB,
    WB \o Plus(Alpha \cup Space) \o Lit(<<",">>) \o Star(Space) \o Plus(Alpha \cup Space)
       \o Lit(<<",">>) \o Star(Space) \o Rep(Digit, 6, 6) \o WB >>
MedicalTermPatterns == <<
    WB \o Patient \o Sep \o Words,
    WB \o Alt(<<Lit(<<"D","i","a","g","n","o","s","i","s">>), Lit(<<"D","x">>) \o Opt({"."})>>) \o Sep \o Words,
    WB \o Alt(<<Lit(<<"S","y","m","p","t","o","m","s">>), Lit(<<"S","x">>) \o Opt({"."})>>) \o Sep \o Words,
    WB \o Alt(<<Lit(<<"M","e","d","i","c","a","t","i","o","n">>), Lit(<<"M","e","d","s">>) \o Opt({"."})>>) \o Sep \o Words >>
DatePatterns == <<
    WB \o Alt(<<Lit(<<"D","O","B">>), Lit(<<"B","i","r","t","h">>)>>) \o Sep \o Date,
    WB \o Alt(<<Lit(<<"A","d","m","i","s","s","i","o","n">>), Lit(<<"D","i","s","c","h","a","r","g","e">>)>>) \o Sep \o Date >>
SsnPatterns == <<
    WB \o D3 \o Lit(<<"-">>) \o Rep(Digit, 2, 2) \o Lit(<<"-">>) \o D4 \o WB,
    WB \o D9 \o WB >>
CardPatterns == <<
    WB \o D4 \o Opt(Space \cup {"-"}) \o D4 \o Opt(Space \cup {"-"}) \o D4
       \o Opt(Space \cup {"-"}) \o D4 \o WB >>
PhiTermPatterns == <<
    WB \o Alt(<<Lit(<<"P","H","I">>), Lit(<<"P","I","I">>), Lit(<<"P","e","r","s","o","n","a","l">>), Lit(<<"H","e","a","l","t","h">>), Lit(<<"M","e","d","i","c","a","l">>)>>)
       \o Star(Space) \o Star(Alnum \cup Space) \o WB,
    WB \o Alt(<<Lit(<<"C","o","n","f","i","d","e","n","t","i","a","l">>), Lit(<<"S","e","n","s","i","t","i","v","e">>), Lit(<<"P","r","i","v","a","t","e">>)>>)
       \o Star(Space) \o Star(Alnum \cup Space) \o WB >>

InCategory(category, patterns) ==
    [k \in 1..Len(patterns) |-> Rule(category, patterns[k])]

PatternSource ==
       InCategory(<<"p","h","o","n","e","_","n","u","m","b","e","r","s">>, PhonePatterns)
    \o InCategory(<<"e","m","a","i","l","_","a","d","d","r","e","s","s","e","s">>, EmailPatterns)
    \o InCategory(<<"n","a","m","e","s">>, NamePatterns)
    \o InCategory(<<"m","e","d","i","c","a","l","_","i","d","s">>, MedicalIdPatterns)
    \o InCategory(<<"a","d","d","r","e","s","s","e","s">>, AddressPatterns)
    \o InCategory(<<"m","e","d","i","c","a","l","_","t","e","r","m","s">>, MedicalTermPatterns)
    \o InCategory(<<"d","a","t","e","s","_","w","i","t","h","_","c","o","n","t","e","x","t">>, DatePatterns)
    \o InCategory(<<"s","s","n","_","p","a","t","t","e","r","n","s">>, SsnPatterns)
    \o InCategory(<<"c","r","e","d","i","t","_","c","a","r","d","s">>, CardPatterns)
    \o InCategory(<<"c","o","m","m","o","n","_","p","h","i","_","t","e","r","m","s">>, PhiTermPatterns)

LoadPhiPatterns ==
    [k \in 1..Len(PatternSource) |-> Rule(PatternSource[k].category, k)]

BadPattern == 0
Compiles(text) == text \in 1..Len(PatternSource)
Compile(text) == PatternSource[text].pattern

(***************************************************************************)
(* PHILinter._is_false_positive                                            *)
(***************************************************************************)
TestWords == {<<"t","e","s","t">>, <<"e","x","a","m","p","l","e">>, <<"s","a","m","p","l","e">>}
ConfigWords == {<<"c","o","n","f","i","g">>, <<"e","x","a","m","p","l","e">>, <<"t","e","m","p","l","a","t","e">>}
ConfigSuffixes == {<<".","y","m","l">>, <<".","y","a","m","l">>, <<".","j","s","o","n">>, <<".","x","m","l">>}
PatternWords == {<<"p","a","t","t","e","r","n">>, <<"r","e","g","e","x">>, <<"f","o","r","m","a","t">>}

\* mutant: startswith asked of the line as read, not of line.strip()
IsFalsePositiveNoStrip(match, line, path) ==
    IF StartsWith(line, <<"/","/">>) \/ StartsWith(line, <<"#">>) THEN TRUE
    ELSE IF /\ Contains(StrLower(PathName(path)), <<"t","e","s","t">>)
            /\ \E word \in TestWords : Contains(StrLower(match), word) THEN TRUE
    ELSE IF /\ PathSuffix(path) \in ConfigSuffixes
            /\ \E word \in ConfigWords : Contains(StrLower(match), word) THEN TRUE
    ELSE IF Contains(line, <<"\\","b">>) \/ Contains(line, <<"\\","d">>) \/ Contains(line, <<"\\","w">>) THEN TRUE
    ELSE IF \E word \in PatternWords : Contains(StrLower(line), word) THEN TRUE
    ELSE FALSE

\* mutant: the digit escape is looked for in the match, not in the line
IsFalsePositiveDigitInMatch(match, line, path) ==
    IF StartsWith(Strip(line), <<"/","/">>) \/ StartsWith(Strip(line), <<"#">>) THEN TRUE
    ELSE IF /\ Contains(StrLower(PathName(path)), <<"t","e","s","t">>)
            /\ \E word \in TestWords : Contains(StrLower(match), word) THEN TRUE
    ELSE IF /\ PathSuffix(path) \in ConfigSuffixes
            /\ \E word \in ConfigWords : Contains(StrLower(match), word) THEN TRUE
    ELSE IF Contains(line, <<"\\","b">>) \/ Contains(match, <<"\\","d">>) \/ Contains(line, <<"\\","w">>) THEN TRUE
    ELSE IF \E word \in PatternWords : Contains(StrLower(line), word) THEN TRUE
    ELSE FALSE

\* mutant: a configuration file whose match holds none of the words is
\* accepted at once, before the last two conditions are looked at
IsFalsePositiveEarlyAccept(match, line, path) ==
    IF StartsWith(Strip(line), <<"/","/">>) \/ StartsWith(Strip(line), <<"#">>) THEN TRUE
    ELSE IF /\ Contains(StrLower(PathName(path)), <<"t","e","s","t">>)
            /\ \E word \in TestWords : Contains(StrLower(match), word) THEN TRUE
    ELSE IF PathSuffix(path) \in ConfigSuffixes
         THEN \E word \in ConfigWords : Contains(StrLower(match), word)
    ELSE IF Contains(line, <<"\\","b">>) \/ Contains(line, <<"\\","d">>) \/ Contains(line, <<"\\","w">>) THEN TRUE
    ELSE IF \E word \in PatternWords : Contains(StrLower(line), word) THEN TRUE
    ELSE FALSE

\* mutant: the words of test data and of configuration are looked for in
\* the line
IsFalsePositiveWordsInLine(match, line, path) ==
    IF StartsWith(Strip(line), <<"/","/">>) \/ StartsWith(Strip(line), <<"#">>) THEN TRUE
    ELSE IF /\ Contains(StrLower(PathName(path)), <<"t","e","s","t">>)
            /\ \E word \in TestWords : Contains(StrLower(line), word) THEN TRUE
    ELSE IF /\ PathSuffix(path) \in ConfigSuffixes
            /\ \E word \in ConfigWords : Contains(StrLower(line), word) THEN TRUE
    ELSE IF Contains(line, <<"\\","b">>) \/ Contains(line, <<"\\","d">>) \/ Contains(line, <<"\\","w">>) THEN TRUE
    ELSE IF \E word \in PatternWords : Contains(StrLower(line), word) THEN TRUE
    ELSE FALSE

IsFalsePositive(match, line, path) ==
    IF StartsWith(Strip(line), <<"/","/">>) \/ StartsWith(Strip(line), <<"#">>) THEN TRUE
    ELSE IF /\ Contains(StrLower(PathName(path)), <<"t","e","s","t">>)
            /\ \E word \in TestWords : Contains(StrLower(match), word) THEN TRUE
    ELSE IF /\ PathSuffix(path) \in ConfigSuffixes
            /\ \E word \in ConfigWords : Contains(StrLower(match), word) THEN TRUE
    ELSE IF Contains(line, <<"\\","b">>) \/ Contains(line, <<"\\","d">>) \/ Contains(line, <<"\\","w">>) THEN TRUE
    ELSE IF \E word \in PatternWords : Contains(StrLower(line), word) THEN TRUE
    ELSE FALSE

(***************************************************************************)
(* PHILinter.scan_file, the body of the loop over the lines: the rules in  *)
(* catalog order, the matches of a rule left to right, the filter asked    *)
(* for each match.  matches gives the result of re.finditer on the line    *)
(* for each pattern text, calls lists the filter calls made on the line    *)
(* (their arguments and result, with the rule and place of the match) and  *)
(* raised tells whether re.finditer raised on a pattern, which ends the    *)
(* calls of the line.                                                      *)
(***************************************************************************)
FilterCalls(patterns, k, line, path, matches) ==
    LET ms == matches[patterns[k].pattern]
    IN [j \in 1..Len(ms) |->
          [rule |-> k, category |-> patterns[k].category, start |-> ms[j].start,
           match |-> ms[j].text, line |-> line, path |-> path,
           rejected |-> IsFalsePositive(ms[j].text, line, path)]]

RECURSIVE ScanRules(_, _, _, _, _)
ScanRules(patterns, k, line, path, matches) ==
    IF k > Len(patterns) THEN [calls |-> <<>>, raised |-> FALSE]
    ELSE IF ~Compiles(patterns[k].pattern) THEN [calls |-> <<>>, raised |-> TRUE]
    ELSE LET rest == ScanRules(patterns, k + 1, line, path, matches)
         IN [calls |-> FilterCalls(patterns, k, line, path, matches) \o rest.calls,
             raised |-> rest.raised]

ScanLine(patterns, line, path, matches) == ScanRules(patterns, 1, line, path, matches)

\* mutant: the message does not name the category
MessageWithoutCategory(category, text) == <<"P","o","t","e","n","t","i","a","l",":"," ">> \o text

\* f"Potential {category}: {match.group()}"
Message(category, text) == <<"P","o","t","e","n","t","i","a","l"," ">> \o category \o <<":"," ">> \o text

\* mutant: break where the program has continue
RECURSIVE AcceptedUntilRejected(_, _)
AcceptedUntilRejected(calls, n) ==
    IF calls = <<>> \/ Head(calls).rejected THEN <<>>
    ELSE << <<n, Head(calls).category, Message(Head(calls).category, Head(calls).match)>> >>
         \o AcceptedUntilRejected(Tail(calls), n)

\* mutant: a text already met at the same place of the line is not reported
\* a second time
RECURSIVE AcceptedOncePerText(_, _)
AcceptedOncePerText(calls, n) ==
    IF calls = <<>> THEN <<>>
    ELSE LET last == calls[Len(calls)]
             front == SubSeq(calls, 1, Len(calls) - 1)
         IN AcceptedOncePerText(front, n)
            \o (IF \/ last.rejected
                   \/ \E i \in 1..Len(front) :
                         front[i].start = last.start /\ front[i].match = last.match
                THEN <<>>
                ELSE << <<n, last.category, Message(last.category, last.match)>> >>)

\* the tuples scan_file appends for line n: the calls the filter let pass
RECURSIVE Accepted(_, _)
Accepted(calls, n) ==
    IF calls = <<>> THEN <<>>
    ELSE (IF Head(calls).rejected THEN <<>>
          ELSE << <<n, Head(calls).category, Message(Head(calls).category, Head(calls).match)>> >>)
         \o Accepted(Tail(calls), n)

\* open(file_path) and f.readlines()
ReadLines(entry) ==
    IF entry.readable THEN [raised |-> FALSE, lines |-> entry.lines]
    ELSE [raised |-> TRUE, lines |-> <<>>]

(***************************************************************************)
(* PHILinter.scan_directory: the filters on an entry of the traversal and  *)
(* the record kept for a violation.                                        *)
(***************************************************************************)
ExcludedDirs == {<<".","g","i","t">>, <<".","g","r","a","d","l","e">>, <<"b","u","i","l","d">>, <<"n","o","d","e","_","m","o","d","u","l","e","s">>, <<".","i","d","e","a">>,
                 <<"v","e","n","v">>, <<"_","_","p","y","c","a","c","h","e","_","_">>, <<".","p","y","t","e","s","t","_","c","a","c","h","e">>, <<"t","a","r","g","e","t">>}
ExcludedFiles == {<<"p","h","i","_","l","i","n","t","e","r",".","p","y">>, <<"p","h","i","_","v","i","o","l","a","t","i","o","n","s",".","t","x","t">>, <<".","g","i","t","i","g","n","o","r","e">>}
ScanSuffixes == {<<".","k","t">>, <<".","j","a","v","a">>, <<".","x","m","l">>, <<".","j","s","o","n">>, <<".","m","d">>, <<".","t","x","t">>, <<".","y","m","l">>, <<".","y","a","m","l">>}

\* the path rglob yields for an entry below root_dir
FullPath(root_dir, rel) == IF root_dir = <<".">> THEN rel ELSE root_dir \o <<"/">> \o rel

\* mutant: the excluded directories are not looked at
EligibleAnywhere(entry, path, exdirs, exfiles) ==
    /\ entry.is_file
    /\ PathName(path) \notin exfiles
    /\ PathSuffix(path) \in ScanSuffixes

\* mutant: the excluded file names are not looked at
EligibleAnyName(entry, path, exdirs, exfiles) ==
    /\ entry.is_file
    /\ ~ \E excluded \in exdirs : Contains(path, excluded)
    /\ PathSuffix(path) \in ScanSuffixes

\* mutant: a directory is excluded by its name, as a component of the path
\* below the root
EligibleByDirectory(entry, path, exdirs, exfiles) ==
    /\ entry.is_file
    /\ ~ \E excluded \in exdirs :
          \/ StartsWith(entry.rel, excluded \o <<"/">>)
          \/ Contains(entry.rel, <<"/">> \o excluded \o <<"/">>)
    /\ PathName(path) \notin exfiles
    /\ PathSuffix(path) \in ScanSuffixes

Eligible(entry, path, exdirs, exfiles) ==
    /\ entry.is_file
    /\ ~ \E excluded \in exdirs : Contains(path, excluded)
    /\ PathName(path) \notin exfiles
    /\ PathSuffix(path) \in ScanSuffixes

\* f"{file_path}:{line_num} - {message}"
ViolationText(path, v) == path \o <<":">> \o Dec(v[1]) \o <<" ","-"," ">> \o v[3]

Formatted(path, vs) == [i \in 1..Len(vs) |-> ViolationText(path, vs[i])]

\* mutant: the records of a file are put in front of the list
RecordedInFront(old, new) == new \o old

\* self.violations.append(violation), for each violation of the file
Recorded(old, new) == old \o new

(***************************************************************************)
(* PHILinter.generate_report: the text written, one element per write, to  *)
(* a file opened with mode 'w'.                                            *)
(***************************************************************************)
RuleWidth == 50

RECURSIVE Times(_, _)
Times(s, n) == IF n = 0 THEN <<>> ELSE s \o Times(s, n - 1)

\* mutant: the total counts each distinct record once
ReportCountsDistinct(vs) ==
    IF vs # <<>>
    THEN <<<<"P","H","I"," ","V","i","o","l","a","t","i","o","n","s"," ","D","e","t","e","c","t","e","d",":","\n">>, Times(<<"=">>, RuleWidth) \o <<"\n","\n">>>>
         \o [i \in 1..Len(vs) |-> vs[i] \o <<"\n">>]
         \o <<<<"\n","T","o","t","a","l"," ","v","i","o","l","a","t","i","o","n","s",":"," ">> \o Dec(Cardinality(SetOf(vs))) \o <<"\n">>>>
    ELSE <<<<"N","o"," ","P","H","I"," ","v","i","o","l","a","t","i","o","n","s"," ","d","e","t","e","c","t","e","d",".","\n">>>>

ReportText(vs) ==
    IF vs # <<>>
    THEN <<<<"P","H","I"," ","V","i","o","l","a","t","i","o","n","s"," ","D","e","t","e","c","t","e","d",":","\n">>, Times(<<"=">>, RuleWidth) \o <<"\n","\n">>>>
         \o [i \in 1..Len(vs) |-> vs[i] \o <<"\n">>]
         \o <<<<"\n","T","o","t","a","l"," ","v","i","o","l","a","t","i","o","n","s",":"," ">> \o Dec(Len(vs)) \o <<"\n">>>>
    ELSE <<<<"N","o"," ","P","H","I"," ","v","i","o","l","a","t","i","o","n","s"," ","d","e","t","e","c","t","e","d",".","\n">>>>

\* mutant: the file is opened with mode 'a'
AppendReport(old, vs) == old \o ReportText(vs)

WriteReport(old, vs) == ReportText(vs)

\* the file generate_report writes when it is given no name, in the
\* directory the program was started in
OutputFile == <<"p","h","i","_","v","i","o","l","a","t","i","o","n","s",".","t","x","t">>

\* the text of a file written write by write
RECURSIVE FileText(_)
FileText(writes) == IF writes = <<>> THEN <<>> ELSE Head(writes) \o FileText(Tail(writes))

\* f.readlines() on a text: each line ends after its newline, the last one
\* at the end of the text
SplitLines(text) ==
    LET ends == {i \in 1..Len(text) : text[i] = "\n" \/ i = Len(text)}
        EndOf(j) == CHOOSE e \in ends : Cardinality({x \in ends : x <= e}) = j
    IN [j \in 1..Cardinality(ends) |->
          SubSeq(text, IF j = 1 THEN 1 ELSE EndOf(j - 1) + 1, EndOf(j))]

\* the tree below root_dir after generate_report: the report file of the
\* start directory, where the traversal meets it, holds what was written
Refreshed(entries, root_dir, writes) ==
    [i \in 1..Len(entries) |->
        IF FullPath(root_dir, entries[i].rel) = OutputFile /\ entries[i].is_file
        THEN [entries[i] EXCEPT !.lines = SplitLines(FileText(writes))]
        ELSE entries[i]]

(***************************************************************************)
(* PHILinter.run: the exit code returned after the report.                 *)
(***************************************************************************)
\* mutant: the violations found do not fail the run
ExitCodeZero(vs) == 0

ExitCode(vs) == IF vs # <<>> THEN 1 ELSE 0

(***************************************************************************)
(* The inputs: the entries a traversal yields, in the order it yields      *)
(* them, and the root directories run is given.                            *)
(***************************************************************************)
Entry(rel, is_file, readable, lines) ==
    [rel |-> rel, is_file |-> is_file, readable |-> readable, lines |-> lines]

EntryPool == {
    Entry(<<"a","p","p","/","C","o","n","t","r","o","l","l","e","r",".","k","t">>, TRUE, TRUE, <<<<"P","a","t","i","e","n","t"," ","I","D",":"," ","4","8","2","1","3","\n">>>>),
    Entry(<<"d","o","c","s","/","N","o","t","e","s",".","m","d">>, TRUE, TRUE,
          <<<<"c","o","n","t","a","c","t",":"," ","j","a","n","e",".","d","o","e","@","e","x","a","m","p","l","e",".","c","o","m","\n">>, <<"M","R","N"," ","7"," ","a","n","d"," ","M","R","N"," ","8","\n">>>>),
    Entry(<<"c","f","g","/","a","p","p",".","j","s","o","n">>, TRUE, TRUE, <<<<"M","e","d","i","c","a","l"," ","C","O","N","F","I","G","\n">>, <<"c","o","n","f","i","g"," ","f","i","l","e"," ","f","o","r"," ","M","R","N"," ","7","\n">>>>),
    Entry(<<"a","p","p","/","P","a","t","i","e","n","t","T","e","s","t",".","k","t">>, TRUE, TRUE,
          <<<<"/","/"," ","P","a","t","i","e","n","t"," ","J","o","h","n"," ","S","m","i","t","h"," ","c","a","l","l","e","d","\n">>, <<"P","a","t","i","e","n","t"," ","e","x","a","m","p","l","e","\n">>>>),
    Entry(<<"r","u","l","e","s","/","s","s","n",".","t","x","t">>, TRUE, TRUE,
          <<<<"s","s","n"," ","\\","d","{","3","}"," ","1","2","3","-","4","5","-","6","7","8","9","\n">>, <<"s","s","n"," ","1","2","3","-","4","5","-","6","7","8","9","\n">>>>),
    Entry(<<"a","p","p","/","L","o","c","k","e","d",".","k","t">>, TRUE, FALSE, <<<<"P","a","t","i","e","n","t"," ","I","D",":"," ","7","\n">>>>),
    Entry(<<"b","u","i","l","d","/","G","e","n",".","k","t">>, TRUE, TRUE, <<<<"P","a","t","i","e","n","t"," ","I","D",":"," ","1","\n">>>>),
    Entry(<<"a","p","p">>, FALSE, FALSE, <<>>) }

\* the traversals of at most MaxFiles entries, no path twice
Trees == UNION {{t \in [1..n -> EntryPool] : \A i, j \in 1..n : t[i].rel = t[j].rel => i = j}
                : n \in 1..MaxFiles}

\* the files of one line: a line is a prefix, a body and a suffix
LinePaths == {<<"a","p","p","/","C","o","n","t","r","o","l","l","e","r",".","k","t">>, <<"a","p","p","/","P","a","t","i","e","n","t","T","e","s","t",".","k","t">>, <<"c","f","g","/","a","p","p",".","j","s","o","n">>,
              <<"c","f","g","/","t","e","s","t",".","y","m","l">>, <<"t","e","s","t","s","/","M","a","i","n",".","m","d">>}
LinePrefixes == {<<>>, <<" "," ","/","/"," ">>, <<"\t","#"," ">>}
LineBodies == {<<"P","a","t","i","e","n","t"," ","I","D",":"," ","4","8","2","1","3">>, <<"M","e","d","i","c","a","l"," ","C","O","N","F","I","G">>, <<"P","a","t","i","e","n","t"," ","e","x","a","m","p","l","e">>,
               <<"H","e","a","l","t","h"," ","T","e","m","p","l","a","t","e">>, <<"c","o","n","f","i","g"," ","f","i","l","e"," ","f","o","r"," ","M","R","N"," ","7">>, <<"D","r","."," ","T","e","s","t"," ","S","a","m","p","l","e">>,
               <<"s","a","m","p","l","e"," ","M","R","N"," ","7">>}
LineSuffixes == {<<>>, <<" ","\\","d">>, <<" ","\\","b">>, <<" ","\\","w","{","2","}">>, <<" ","R","e","g","e","x">>, <<" ","p","a","t","t","e","r","n">>, <<" ","i","n"," ","f","o","r","m","a","t">>}
LinePool == {pre \o body \o suf \o <<"\n">> :
                pre \in LinePrefixes, body \in LineBodies, suf \in LineSuffixes}
LineTrees == {<<Entry(path, TRUE, TRUE, <<line>>)>> : path \in LinePaths, line \in LinePool}

\* the trees of one file, for the filters of the traversal: a path and a
\* text of one or two lines
FilePaths == {<<"a","p","p","/","C","o","n","t","r","o","l","l","e","r",".","k","t">>, <<"d","o","c","s","/","N","o","t","e","s",".","m","d">>, <<"b","u","i","l","d","/","G","e","n",".","k","t">>, <<"a","p","p","/","b","u","i","l","d","/","G","e","n",".","k","t">>,
              <<"a","p","p","/","R","e","b","u","i","l","d",".","k","t">>, <<"b","u","i","l","d","e","r","/","A","p","p",".","k","t">>, <<"d","o","c","s","/","t","a","r","g","e","t","s",".","m","d">>, <<"a","p","p","/","M","a","i","n",".","p","y">>,
              <<"a","p","p","/","p","h","i","_","v","i","o","l","a","t","i","o","n","s",".","t","x","t">>, <<"R","E","A","D","M","E">>, <<"a","p","p","/","U","p","p","e","r",".","K","T">>, <<"a","p","p","/",".","k","t">>,
              <<".","g","i","t","i","g","n","o","r","e">>, <<"c","f","g","/","a","p","p",".","y","a","m","l">>}
FileTexts == {<<<<"P","a","t","i","e","n","t"," ","I","D",":"," ","4","8","2","1","3","\n">>>>, <<<<"M","R","N"," ","7","\n">>, <<"D","r","."," ","T","o","m"," ","R","a","y"," ","9","8","7","6","5","4","3","2","1","0","\n">>>>,
              <<<<"P","a","t","i","e","n","t"," ","J","o","h","n"," ","S","m","i","t","h",".","\n">>>>}
FileTrees == {<<Entry(path, TRUE, TRUE, text)>> : path \in FilePaths, text \in FileTexts}
                \cup {<<Entry(<<"a","p","p",".","k","t">>, FALSE, FALSE, <<>>)>>}

\* the trees of two entries, for the threads that share a linter
WorkerTrees == {t \in Trees : Len(t) = 2}

\* trees of the start directory that already hold the report of an earlier
\* run, or the linter's own script
OldReport ==
    SplitLines(FileText(ReportText(
        <<ViolationText(<<"a","p","p","/","C","o","n","t","r","o","l","l","e","r",".","k","t">>,
                        <<1, <<"m","e","d","i","c","a","l","_","t","e","r","m","s">>, Message(<<"m","e","d","i","c","a","l","_","t","e","r","m","s">>, <<"P","a","t","i","e","n","t"," ","I","D">>)>>)>>)))

RerunTrees == {
    <<Entry(<<"a","p","p","/","C","o","n","t","r","o","l","l","e","r",".","k","t">>, TRUE, TRUE, <<<<"P","a","t","i","e","n","t"," ","I","D",":"," ","4","8","2","1","3","\n">>>>),
      Entry(OutputFile, TRUE, TRUE, OldReport)>>,
    <<Entry(OutputFile, TRUE, TRUE, <<<<"N","o"," ","P","H","I"," ","v","i","o","l","a","t","i","o","n","s"," ","d","e","t","e","c","t","e","d",".","\n">>>>),
      Entry(<<"d","o","c","s","/","N","o","t","e","s",".","m","d">>, TRUE, TRUE,
            <<<<"c","o","n","t","a","c","t",":"," ","j","a","n","e",".","d","o","e","@","e","x","a","m","p","l","e",".","c","o","m","\n">>, <<"M","R","N"," ","7"," ","a","n","d"," ","M","R","N"," ","8","\n">>>>)>>,
    <<Entry(<<"s","c","r","i","p","t","s","/","p","h","i","_","l","i","n","t","e","r",".","p","y">>, TRUE, TRUE, <<<<"s","a","m","p","l","e"," ","="," ","'","P","a","t","i","e","n","t"," ","I","D",":"," ","4","8","2","1","3","'","\n">>>>),
      Entry(<<"c","f","g","/","a","p","p",".","j","s","o","n">>, TRUE, TRUE, <<<<"M","e","d","i","c","a","l"," ","C","O","N","F","I","G","\n">>, <<"c","o","n","f","i","g"," ","f","i","l","e"," ","f","o","r"," ","M","R","N"," ","7","\n">>>>),
      Entry(OutputFile, TRUE, TRUE, <<>>)>>,
    <<Entry(<<"a","p","p","/","C","o","n","t","r","o","l","l","e","r",".","k","t">>, TRUE, TRUE, <<<<"P","a","t","i","e","n","t"," ","I","D",":"," ","4","8","2","1","3","\n">>>>),
      Entry(<<"d","o","c","s","/","N","o","t","e","s",".","m","d">>, TRUE, TRUE,
            <<<<"c","o","n","t","a","c","t",":"," ","j","a","n","e",".","d","o","e","@","e","x","a","m","p","l","e",".","c","o","m","\n">>, <<"M","R","N"," ","7"," ","a","n","d"," ","M","R","N"," ","8","\n">>>>)>> }

RootDirs == {<<".">>, <<"n","o","d","i","r">>}
\* the directories there are: the start directory and three below it
ExistingRoots == {<<".">>, <<"s","r","c">>, <<"r","e","b","u","i","l","d">>, <<"o","u","t","/","t","a","r","g","e","t">>}
Exists(root_dir) == root_dir \in ExistingRoots

\* the command lines of main: --dir and --output given or left out
MainArgs == [dir : ExistingRoots \cup {<<"n","o","d","i","r">>}, output : {<<"p","h","i","_","v","i","o","l","a","t","i","o","n","s",".","t","x","t">>, <<"o","u","t","/","r","e","p","o","r","t",".","t","x","t">>}]

\* re.finditer with each pattern text of the catalog on each line of the
\* tree.  The matches depend on the pattern and the line alone; they are
\* computed when the tree is chosen and looked up by the scan.
LinesOf(tree) == UNION {SetOf(tree[i].lines) : i \in 1..Len(tree)}

MatchTable(tree) ==
    [s \in LinesOf(tree) |-> [text \in 1..Len(PatternSource) |-> FindIter(Compile(text), s)]]

(***************************************************************************)
(* The state: one PHILinter, the tree it scans and the call in progress.   *)
(***************************************************************************)
VARIABLES
    phi_patterns,    \* self.phi_patterns
    excluded_dirs,   \* self.excluded_dirs
    excluded_files,  \* self.excluded_files
    violations,      \* self.violations
    fs,              \* the entries rglob yields below args.dir, in order
    re_matches,      \* MatchTable of the tree at the start
    report,          \* what phi_violations.txt holds, <<>> before the first write
    stdout,          \* what was printed
    exit_code,       \* what the last call returned if it was run, -1 otherwise
    calls_left,      \* public-method calls the environment still makes
    pc,              \* where the call in progress stands
    caller,          \* the public method called last
    root,            \* its root_dir
    idx,             \* the position of the traversal in fs
    lines,           \* scan_file: the lines read
    line_num,        \* scan_file: the line the loop is at
    found,           \* scan_file: its local list of violations
    asked,           \* scan_file: the filter calls made on the last line scanned
    workers,         \* the threads that share the linter, <<>> when it has one caller
    args,            \* main: what parse_args returned, its defaults without main
    output_file,     \* the name of the file generate_report opened last, <<>> before
    errors,          \* SBOMValidator: self.errors
    warnings,        \* SBOMValidator: self.warnings
    sbom_files,      \* the files validate_sbom is still to be called on
    sbom_data,       \* validate_sbom: what json.load returned
    sbom_pc,         \* validate_sbom: where the call stands
    returned,        \* what the calls of validate_sbom returned, in turn
    expected_privacy_policy_url,  \* PrivacyPolicyChecker: the attribute
    response,        \* what requests.get gives for the url
    disk_ok,         \* whether the evidence files can be written
    compliance,      \* generate_compliance_report: the report built so far
    checker_pc,      \* PrivacyPolicyChecker.run: where it stands
    checker_exit     \* what PrivacyPolicyChecker.run returned, -1 before

linter == <<phi_patterns, excluded_dirs, excluded_files>>
tree == <<fs, re_matches>>
frame == <<root, idx, lines, line_num, found, asked>>
vars == <<phi_patterns, excluded_dirs, excluded_files, violations, fs, re_matches, report,
          stdout, exit_code, calls_left, pc, caller, root, idx, lines, line_num, found, asked,
          workers, args, output_file, errors, warnings, sbom_files, sbom_data, sbom_pc,
          returned, expected_privacy_policy_url, response, disk_ok, compliance, checker_pc,
          checker_exit>>
validator == <<errors, warnings, sbom_files, sbom_data, sbom_pc, returned>>
privacy == <<expected_privacy_policy_url, response, disk_ok, compliance, checker_pc, checker_exit>>
others == <<args, validator, privacy>>

\* the defaults of main's options
DefaultArgs == [dir |-> <<".">>, output |-> <<"p","h","i","_","v","i","o","l","a","t","i","o","n","s",".","t","x","t">>]

\* the methods of the linter are called by a caller of its own, not by main
CalledDirectly == args = DefaultArgs

\* no SBOMValidator at work
ValidatorIdle ==
    /\ errors = <<>>
    /\ warnings = <<>>
    /\ sbom_files = <<>>
    /\ sbom_data = <<>>
    /\ sbom_pc = "idle"
    /\ returned = <<>>

\* no PrivacyPolicyChecker at work
CheckerIdle ==
    /\ expected_privacy_policy_url = "none"
    /\ response = "none"
    /\ disk_ok = TRUE
    /\ compliance = <<>>
    /\ checker_pc = "idle"
    /\ checker_exit = -1

OtherScriptsIdle == ValidatorIdle /\ CheckerIdle

\* re.finditer with each pattern text on a line: looked up for the lines the
\* tree had at the start, computed for a line written since
Matches(line) ==
    IF line \in DOMAIN re_matches THEN re_matches[line]
    ELSE [text \in 1..Len(PatternSource) |-> FindIter(Compile(text), line)]

Printed(kind, arg) == [kind |-> kind, arg |-> arg]

\* PHILinter() with the catalog given, before any call
Construct(patterns) ==
    /\ phi_patterns = patterns
    /\ excluded_dirs = ExcludedDirs
    /\ excluded_files = ExcludedFiles
    /\ violations = <<>>
    /\ report = <<>>
    /\ output_file = <<>>
    /\ stdout = <<>>
    /\ exit_code = -1
    /\ pc = "idle"
    /\ caller = "none"
    /\ root = <<>>
    /\ idx = 0
    /\ lines = <<>>
    /\ line_num = 0
    /\ found = <<>>
    /\ asked = <<>>

Init ==
    /\ Construct(LoadPhiPatterns)
    /\ workers = <<>>
    /\ CalledDirectly
    /\ OtherScriptsIdle
    /\ fs \in Trees
    /\ re_matches = MatchTable(fs)
    /\ calls_left = MaxCalls

\* one call on a tree of one file of one line
InitLine ==
    /\ Construct(LoadPhiPatterns)
    /\ workers = <<>>
    /\ CalledDirectly
    /\ OtherScriptsIdle
    /\ fs \in LineTrees
    /\ re_matches = MatchTable(fs)
    /\ calls_left = 1

\* a catalog with one pattern text that does not compile
InitDefect ==
    /\ workers = <<>>
    /\ CalledDirectly
    /\ OtherScriptsIdle
    /\ fs \in Trees
    /\ re_matches = MatchTable(fs)
    /\ calls_left = 1
    /\ \E k \in 1..Len(LoadPhiPatterns) :
          Construct([LoadPhiPatterns EXCEPT ![k].pattern = BadPattern])

\* one call on a tree of one entry
InitTree ==
    /\ Construct(LoadPhiPatterns)
    /\ workers = <<>>
    /\ CalledDirectly
    /\ OtherScriptsIdle
    /\ fs \in FileTrees
    /\ re_matches = MatchTable(fs)
    /\ calls_left = 1

\* calls in turn on a start directory that holds an earlier report
InitRerun ==
    /\ Construct(LoadPhiPatterns)
    /\ workers = <<>>
    /\ CalledDirectly
    /\ OtherScriptsIdle
    /\ fs \in RerunTrees
    /\ re_matches = MatchTable(fs)
    /\ calls_left = MaxCalls

\* main: the command line is parsed, a linter is made and run is called once
InitMain ==
    /\ Construct(LoadPhiPatterns)
    /\ workers = <<>>
    /\ args \in MainArgs
    /\ OtherScriptsIdle
    /\ fs \in FileTrees
    /\ re_matches = MatchTable(fs)
    /\ calls_left = 1

\* a thread before its first file: worker t takes the entries t, t + NumWorkers, ...
Worker(t) ==
    [pc |-> "next", idx |-> t, lines |-> <<>>, line_num |-> 0, found |-> <<>>, k |-> 0]

\* a new linter whose scan of '.' is shared by NumWorkers threads
InitWorkers ==
    /\ phi_patterns = LoadPhiPatterns
    /\ excluded_dirs = ExcludedDirs
    /\ excluded_files = ExcludedFiles
    /\ violations = <<>>
    /\ report = <<>>
    /\ stdout = <<Printed("scanning", <<".">>)>>
    /\ exit_code = -1
    /\ pc = "threads"
    /\ caller = "scan_directory"
    /\ root = <<".">>
    /\ idx = 0
    /\ lines = <<>>
    /\ line_num = 0
    /\ found = <<>>
    /\ asked = <<>>
    /\ workers = [t \in 1..NumWorkers |-> Worker(t)]
    /\ CalledDirectly
    /\ OtherScriptsIdle
    /\ output_file = <<>>
    /\ fs \in WorkerTrees
    /\ re_matches = MatchTable(fs)
    /\ calls_left = 0

\* mutant: run does not look whether the directory exists
RunScansMissing(root_dir) ==
    /\ pc = "idle"
    /\ calls_left > 0
    /\ calls_left' = calls_left - 1
    /\ caller' = "run"
    /\ root' = root_dir
    /\ stdout' = stdout \o <<Printed("start", <<>>), Printed("scanning", root_dir)>>
    /\ exit_code' = -1
    /\ pc' = "walk"
    /\ idx' = 1
    /\ UNCHANGED <<others, output_file, workers, linter, violations, tree, report, lines, line_num, found, asked>>

\* linter.run(root_dir), up to the call of scan_directory
Run(root_dir) ==
    /\ pc = "idle"
    /\ calls_left > 0
    /\ calls_left' = calls_left - 1
    /\ caller' = "run"
    /\ root' = root_dir
    /\ IF ~Exists(root_dir)
       THEN /\ stdout' = stdout \o <<Printed("start", <<>>), Printed("not found", root_dir)>>
            /\ exit_code' = 1
            /\ UNCHANGED <<pc, idx>>
       ELSE /\ stdout' = stdout \o <<Printed("start", <<>>), Printed("scanning", root_dir)>>
            /\ exit_code' = -1
            /\ pc' = "walk"
            /\ idx' = 1
    /\ UNCHANGED <<others, output_file, workers, linter, violations, tree, report, lines, line_num, found, asked>>

\* mutant: scan_directory starts from an empty list
ScanDirectoryClears(root_dir) ==
    /\ pc = "idle"
    /\ calls_left > 0
    /\ Exists(root_dir)
    /\ calls_left' = calls_left - 1
    /\ caller' = "scan_directory"
    /\ root' = root_dir
    /\ stdout' = Append(stdout, Printed("scanning", root_dir))
    /\ exit_code' = -1
    /\ pc' = "walk"
    /\ idx' = 1
    /\ violations' = <<>>
    /\ UNCHANGED <<others, output_file, workers, linter, tree, report, lines, line_num, found, asked>>

\* linter.scan_directory(root_dir) called on its own
ScanDirectory(root_dir) ==
    /\ pc = "idle"
    /\ calls_left > 0
    /\ Exists(root_dir)
    /\ calls_left' = calls_left - 1
    /\ caller' = "scan_directory"
    /\ root' = root_dir
    /\ stdout' = Append(stdout, Printed("scanning", root_dir))
    /\ exit_code' = -1
    /\ pc' = "walk"
    /\ idx' = 1
    /\ UNCHANGED <<others, output_file, workers, linter, violations, tree, report, lines, line_num, found, asked>>

\* mutant: an error of open or readlines ends the traversal
WalkEndsOnError ==
    /\ pc = "walk"
    /\ IF idx > Len(fs)
       THEN /\ pc' = IF caller = "run" THEN "report" ELSE "idle"
            /\ UNCHANGED <<stdout, idx, lines, line_num, found, asked>>
       ELSE LET path == FullPath(root, fs[idx].rel)
                read == ReadLines(fs[idx])
            IN IF ~Eligible(fs[idx], path, excluded_dirs, excluded_files)
               THEN /\ idx' = idx + 1
                    /\ UNCHANGED <<pc, stdout, lines, line_num, found, asked>>
               ELSE /\ found' = <<>>
                    /\ asked' = <<>>
                    /\ lines' = read.lines
                    /\ line_num' = 1
                    /\ IF read.raised
                       THEN /\ stdout' = Append(stdout, Printed("error", path))
                            /\ idx' = Len(fs) + 1
                            /\ UNCHANGED pc
                       ELSE /\ pc' = "lines"
                            /\ UNCHANGED <<stdout, idx>>
    /\ UNCHANGED <<others, output_file, workers, linter, violations, tree, report, exit_code, calls_left, caller, root>>

\* mutant: scan_file goes on with the list its last call left
WalkKeepsFound ==
    /\ pc = "walk"
    /\ IF idx > Len(fs)
       THEN /\ pc' = IF caller = "run" THEN "report" ELSE "idle"
            /\ UNCHANGED <<stdout, idx, lines, line_num, found, asked>>
       ELSE LET path == FullPath(root, fs[idx].rel)
                read == ReadLines(fs[idx])
            IN IF ~Eligible(fs[idx], path, excluded_dirs, excluded_files)
               THEN /\ idx' = idx + 1
                    /\ UNCHANGED <<pc, stdout, lines, line_num, found, asked>>
               ELSE /\ found' = found
                    /\ asked' = <<>>
                    /\ lines' = read.lines
                    /\ line_num' = 1
                    /\ IF read.raised
                       THEN /\ stdout' = Append(stdout, Printed("error", path))
                            /\ pc' = "collect"
                       ELSE /\ pc' = "lines"
                            /\ UNCHANGED stdout
                    /\ UNCHANGED idx
    /\ UNCHANGED <<others, output_file, workers, linter, violations, tree, report, exit_code, calls_left, caller, root>>

\* scan_directory: the next entry of rglob, its filters, and scan_file up to
\* readlines; the end of the traversal returns to the caller
Walk ==
    /\ pc = "walk"
    /\ IF idx > Len(fs)
       THEN /\ pc' = IF caller = "run" THEN "report" ELSE "idle"
            /\ UNCHANGED <<stdout, idx, lines, line_num, found, asked>>
       ELSE LET path == FullPath(root, fs[idx].rel)
                read == ReadLines(fs[idx])
            IN IF ~Eligible(fs[idx], path, excluded_dirs, excluded_files)
               THEN /\ idx' = idx + 1
                    /\ UNCHANGED <<pc, stdout, lines, line_num, found, asked>>
               ELSE /\ found' = <<>>
                    /\ asked' = <<>>
                    /\ lines' = read.lines
                    /\ line_num' = 1
                    /\ IF read.raised
                       THEN /\ stdout' = Append(stdout, Printed("error", path))
                            /\ pc' = "collect"
                       ELSE /\ pc' = "lines"
                            /\ UNCHANGED stdout
                    /\ UNCHANGED idx
    /\ UNCHANGED <<others, output_file, workers, linter, violations, tree, report, exit_code, calls_left, caller, root>>

\* scan_file: one pass of the loop over the lines, or its end
\* mutant: an exception in the loop loses what the file gave so far
ScanStepDropsOnError ==
    /\ pc = "lines"
    /\ IF line_num > Len(lines)
       THEN /\ pc' = "collect"
            /\ UNCHANGED <<stdout, line_num, found, asked>>
       ELSE LET path == FullPath(root, fs[idx].rel)
                line == lines[line_num]
                res == ScanLine(phi_patterns, line, path, Matches(line))
            IN /\ asked' = res.calls
               /\ IF res.raised
                  THEN /\ found' = <<>>
                       /\ stdout' = Append(stdout, Printed("error", path))
                       /\ pc' = "collect"
                       /\ UNCHANGED line_num
                  ELSE /\ found' = found \o Accepted(res.calls, line_num)
                       /\ line_num' = line_num + 1
                       /\ UNCHANGED <<pc, stdout>>
    /\ UNCHANGED <<others, output_file, workers, linter, violations, tree, report, exit_code, calls_left, caller, root, idx, lines>>

ScanStep ==
    /\ pc = "lines"
    /\ IF line_num > Len(lines)
       THEN /\ pc' = "collect"
            /\ UNCHANGED <<stdout, line_num, found, asked>>
       ELSE LET path == FullPath(root, fs[idx].rel)
                line == lines[line_num]
                res == ScanLine(phi_patterns, line, path, Matches(line))
            IN /\ asked' = res.calls
               /\ found' = found \o Accepted(res.calls, line_num)
               /\ IF res.raised
                  THEN /\ stdout' = Append(stdout, Printed("error", path))
                       /\ pc' = "collect"
                       /\ UNCHANGED line_num
                  ELSE /\ line_num' = line_num + 1
                       /\ UNCHANGED <<pc, stdout>>
    /\ UNCHANGED <<others, output_file, workers, linter, violations, tree, report, exit_code, calls_left, caller, root, idx, lines>>

\* scan_directory: what scan_file returned is recorded and printed
Collect ==
    /\ pc = "collect"
    /\ LET new == Formatted(FullPath(root, fs[idx].rel), found)
       IN /\ violations' = Recorded(violations, new)
          /\ stdout' = stdout \o [i \in 1..Len(new) |-> Printed("warn", new[i])]
    /\ idx' = idx + 1
    /\ pc' = "walk"
    /\ UNCHANGED <<others, output_file, workers, linter, tree, report, exit_code, calls_left, caller, root, lines, line_num, found, asked>>

\* linter.generate_report() called on its own
GenerateReport ==
    /\ pc = "idle"
    /\ calls_left > 0
    /\ calls_left' = calls_left - 1
    /\ caller' = "generate_report"
    /\ exit_code' = -1
    /\ report' = WriteReport(report, violations)
    /\ fs' = Refreshed(fs, args.dir, report')
    /\ output_file' = OutputFile
    /\ UNCHANGED <<others, workers, linter, violations, re_matches, stdout, pc, frame>>

\* run: its call of generate_report
\* mutant: run hands the --output option to generate_report
ReportTargetFromOption(options) == options.output

\* run: the output_file generate_report gets from self.generate_report()
ReportTarget(options) == OutputFile

RunReport ==
    /\ pc = "report"
    /\ report' = WriteReport(report, violations)
    /\ fs' = Refreshed(fs, args.dir, report')
    /\ output_file' = ReportTarget(args)
    /\ pc' = "exit"
    /\ UNCHANGED <<others, workers, linter, violations, re_matches, stdout, exit_code, calls_left, caller, frame>>

\* run: the count printed and the exit code returned
RunExit ==
    /\ pc = "exit"
    /\ stdout' = Append(stdout, IF violations # <<>> THEN Printed("found", Len(violations))
                                 ELSE Printed("none", 0))
    /\ exit_code' = ExitCode(violations)
    /\ pc' = "idle"
    /\ UNCHANGED <<others, output_file, workers, linter, violations, tree, report, calls_left, caller, frame>>

(***************************************************************************)
(* The body of the loop of scan_directory run by several threads on one    *)
(* linter, each on its own entries: the filters and scan_file with the     *)
(* locals of the thread, then the appends to self.violations, one append   *)
(* a step.                                                                 *)
(***************************************************************************)
\* scan_directory's filters on the next entry of thread t, and scan_file up
\* to readlines
WorkerOpen(t) ==
    LET w == workers[t]
    IN /\ w.pc = "next"
       /\ IF w.idx > Len(fs)
          THEN /\ workers' = [workers EXCEPT ![t].pc = "done"]
               /\ UNCHANGED stdout
          ELSE LET path == FullPath(<<".">>, fs[w.idx].rel)
                   read == ReadLines(fs[w.idx])
               IN IF ~Eligible(fs[w.idx], path, excluded_dirs, excluded_files)
                  THEN /\ workers' = [workers EXCEPT ![t].idx = w.idx + NumWorkers]
                       /\ UNCHANGED stdout
                  ELSE /\ workers' = [workers EXCEPT ![t] =
                                        [pc |-> IF read.raised THEN "append" ELSE "lines",
                                         idx |-> w.idx, lines |-> read.lines, line_num |-> 1,
                                         found |-> <<>>, k |-> 1]]
                       /\ stdout' = IF read.raised THEN Append(stdout, Printed("error", path))
                                    ELSE stdout
       /\ UNCHANGED <<others, output_file, linter, violations, tree, report, exit_code, calls_left, pc, caller, frame>>

\* mutant: the list of violations of scan_file is one list for all threads
WorkerScanStepSharedList(t) ==
    LET w == workers[t]
    IN /\ w.pc = "lines"
       /\ IF w.line_num > Len(w.lines)
          THEN /\ workers' = [workers EXCEPT ![t].pc = "append"]
               /\ UNCHANGED stdout
          ELSE LET path == FullPath(<<".">>, fs[w.idx].rel)
                   line == w.lines[w.line_num]
                   res == ScanLine(phi_patterns, line, path, Matches(line))
               IN /\ workers' = [u \in DOMAIN workers |->
                                   IF u = t
                                   THEN [w EXCEPT !.found = @ \o Accepted(res.calls, w.line_num),
                                                  !.line_num = IF res.raised THEN @ ELSE @ + 1,
                                                  !.pc = IF res.raised THEN "append" ELSE @]
                                   ELSE [workers[u] EXCEPT
                                            !.found = @ \o Accepted(res.calls, w.line_num)]]
                  /\ stdout' = IF res.raised THEN Append(stdout, Printed("error", path))
                               ELSE stdout
       /\ UNCHANGED <<others, output_file, linter, violations, tree, report, exit_code, calls_left, pc, caller, frame>>

\* scan_file in thread t: one pass of the loop over the lines, or its end
WorkerScanStep(t) ==
    LET w == workers[t]
    IN /\ w.pc = "lines"
       /\ IF w.line_num > Len(w.lines)
          THEN /\ workers' = [workers EXCEPT ![t].pc = "append"]
               /\ UNCHANGED stdout
          ELSE LET path == FullPath(<<".">>, fs[w.idx].rel)
                   line == w.lines[w.line_num]
                   res == ScanLine(phi_patterns, line, path, Matches(line))
               IN /\ workers' = [workers EXCEPT ![t] =
                                   [w EXCEPT !.found = @ \o Accepted(res.calls, w.line_num),
                                             !.line_num = IF res.raised THEN @ ELSE @ + 1,
                                             !.pc = IF res.raised THEN "append" ELSE @]]
                  /\ stdout' = IF res.raised THEN Append(stdout, Printed("error", path))
                               ELSE stdout
       /\ UNCHANGED <<others, output_file, linter, violations, tree, report, exit_code, calls_left, pc, caller, frame>>

\* scan_directory in thread t: the next violation of the file is appended to
\* self.violations and printed, or the loop over them ends
WorkerRecord(t) ==
    LET w == workers[t]
    IN /\ w.pc = "append"
       /\ IF w.k > Len(w.found)
          THEN /\ workers' = [workers EXCEPT ![t].pc = "next", ![t].idx = w.idx + NumWorkers]
               /\ UNCHANGED <<violations, stdout>>
          ELSE LET violation == ViolationText(FullPath(<<".">>, fs[w.idx].rel), w.found[w.k])
               IN /\ violations' = Recorded(violations, <<violation>>)
                  /\ stdout' = Append(stdout, Printed("warn", violation))
                  /\ workers' = [workers EXCEPT ![t].k = w.k + 1]
       /\ UNCHANGED <<others, output_file, linter, tree, report, exit_code, calls_left, pc, caller, frame>>

NextWorkers ==
    \E t \in 1..NumWorkers :
       \/ WorkerOpen(t)
       \/ WorkerScanStep(t)
       \/ WorkerRecord(t)

Next ==
    \/ \E root_dir \in RootDirs : Run(root_dir)
    \/ \E root_dir \in RootDirs : ScanDirectory(root_dir)
    \/ GenerateReport
    \/ Walk
    \/ ScanStep
    \/ Collect
    \/ RunReport
    \/ RunExit

\* main: exit_code = linter.run(args.dir)
Main == Run(args.dir)

NextMain ==
    \/ Main
    \/ Walk
    \/ ScanStep
    \/ Collect
    \/ RunReport
    \/ RunExit

Spec == Init /\ [][Next]_vars

SpecLine == InitLine /\ [][Next]_vars

SpecDefect == InitDefect /\ [][Next]_vars

SpecTree == InitTree /\ [][Next]_vars

SpecRerun == InitRerun /\ [][Next]_vars

SpecMain == InitMain /\ [][NextMain]_vars

SpecWorkers == InitWorkers /\ [][NextWorkers]_vars

(***************************************************************************)
(* validate_sbom.py: SBOMValidator.  A JSON value is a record of its type  *)
(* t and its content v: a sequence of characters for a string, a sequence  *)
(* of values for an array, a function from keys to values for an object.   *)
(***************************************************************************)
MaxValidations == 3

JStr(s) == [t |-> "str", v |-> s]
JList(xs) == [t |-> "list", v |-> xs]
JDict(d) == [t |-> "dict", v |-> d]
JNull == [t |-> "null", v |-> <<>>]

\* d.get(key, default) on an object
Get(d, key, default) == IF key \in DOMAIN d.v THEN d.v[key] ELSE default

\* key in x, for an object, an array or a string
In(key, x) ==
    CASE x.t = "dict" -> key \in DOMAIN x.v
      [] x.t = "list" -> \E i \in 1..Len(x.v) : x.v[i].t = "str" /\ x.v[i].v = key
      [] x.t = "str" -> Contains(x.v, key)

RECURSIVE Flat(_)
Flat(seqs) == IF seqs = <<>> THEN <<>> ELSE Head(seqs) \o Flat(Tail(seqs))

\* what a validator leaves: the lists, and whether it raised
Left(errs, warns, raised) == [errors |-> errs, warnings |-> warns, raised |-> raised]

\* for each field of the list that is not in x, one message
Missing(fields, x, text, quoted) ==
    Flat([i \in 1..Len(fields) |->
            IF In(fields[i], x) THEN <<>>
            ELSE <<text \o (IF quoted THEN <<"'">> \o fields[i] \o <<"'">> ELSE fields[i])>>])

RequiredFields == <<<<"b","o","m","F","o","r","m","a","t">>, <<"s","p","e","c","V","e","r","s","i","o","n">>, <<"s","e","r","i","a","l","N","u","m","b","e","r">>, <<"v","e","r","s","i","o","n">>, <<"m","e","t","a","d","a","t","a">>,
                    <<"c","o","m","p","o","n","e","n","t","s">>>>

\* `field not in sbom_data` raises TypeError for null
ValidateRequiredFields(sbom, errs, warns) ==
    IF sbom.t = "null" THEN Left(errs, warns, TRUE)
    ELSE Left(errs \o Missing(RequiredFields, sbom, <<"M","i","s","s","i","n","g"," ","r","e","q","u","i","r","e","d"," ","f","i","e","l","d",":"," ">>, FALSE),
              warns, FALSE)

\* $ at the end of a pattern: the end of the text, or just before a last newline
AtEnd(s, i) == i = Len(s) + 1 \/ (i = Len(s) /\ s[i] = "\n")

\* re.match(pattern, s) for a pattern that ends with $: some way to match
\* the items from the start ends at the end
RECURSIVE MatchesToEnd(_, _, _)
MatchesToEnd(items, s, i) ==
    IF items = <<>> THEN AtEnd(s, i)
    ELSE LET it == Head(items)
             rest == Tail(items)
         IN IF it.t = "alt"
            THEN \E a \in 1..Len(it.alts) : MatchesToEnd(it.alts[a] \o rest, s, i)
            ELSE \E k \in it.lo..RunLen(it.set, s, i, it.hi, it.unbounded) :
                    MatchesToEnd(rest, s, i + k)

\* the timestamps of the files that datetime.fromisoformat parses once Z is
\* replaced by +00:00
IsoTimestamps == {<<"2","0","2","4","-","0","1","-","1","5","T","1","0",":","3","0",":","0","0","Z">>}
IsValidTimestamp(timestamp) == timestamp \in IsoTimestamps

\* ^\d+\.\d+\.\d+(-[a-zA-Z0-9.-]+)?(\+[a-zA-Z0-9.-]+)?$
TagChars == Alnum \cup {".", "-"}
VersionPattern ==
    Plus(Digit) \o One({"."}) \o Plus(Digit) \o One({"."}) \o Plus(Digit)
    \o Alt(<<One({"-"}) \o Plus(TagChars), <<>>>>)
    \o Alt(<<One({"+"}) \o Plus(TagChars), <<>>>>)
IsValidVersion(version) ==
    MatchesToEnd(VersionPattern, version, 1)

\* ^pkg:[a-zA-Z0-9][a-zA-Z0-9._-]*/[a-zA-Z0-9][a-zA-Z0-9._-]*(@...)?(#...)?$
\* the classes hold both cases; pkg: is in lower case
NameChars == Alnum \cup {".", "_", "-"}
PurlName == One(Alnum) \o Star(NameChars)
PurlPattern ==
    PurlName \o One({"/"}) \o PurlName
    \o Alt(<<One({"@"}) \o PurlName, <<>>>>)
    \o Alt(<<One({"#"}) \o PurlName, <<>>>>)
IsValidPurl(purl) ==
    /\ StartsWith(purl, <<"p","k","g",":">>)
    /\ MatchesToEnd(PurlPattern, SubSeq(purl, 5, Len(purl)), 1)

\* validate_metadata: sbom_data.get raises AttributeError for what is not an
\* object, `field not in metadata` raises TypeError for null; the timestamp
\* is a string
ValidateMetadata(sbom, errs, warns) ==
    IF sbom.t # "dict" THEN Left(errs, warns, TRUE)
    ELSE LET metadata == Get(sbom, <<"m","e","t","a","d","a","t","a">>, JDict(<<>>))
         IN IF metadata.t = "null" THEN Left(errs, warns, TRUE)
            ELSE LET absent == Missing(<<<<"t","i","m","e","s","t","a","m","p">>, <<"t","o","o","l","s">>>>, metadata,
                                       <<"M","i","s","s","i","n","g"," ","r","e","q","u","i","r","e","d"," ","m","e","t","a","d","a","t","a"," ","f","i","e","l","d",":"," ">>, FALSE)
                     stamp ==
                         IF In(<<"t","i","m","e","s","t","a","m","p">>, metadata)
                            /\ ~IsValidTimestamp(metadata.v[<<"t","i","m","e","s","t","a","m","p">>].v)
                         THEN <<<<"I","n","v","a","l","i","d"," ","t","i","m","e","s","t","a","m","p"," ","f","o","r","m","a","t",":"," ">> \o metadata.v[<<"t","i","m","e","s","t","a","m","p">>].v>>
                         ELSE <<>>
                     tools == metadata.v[<<"t","o","o","l","s">>]
                     named ==
                         IF ~In(<<"t","o","o","l","s">>, metadata) THEN <<>>
                         ELSE IF tools.t # "list" \/ Len(tools.v) = 0
                         THEN <<<<"M","e","t","a","d","a","t","a"," ","t","o","o","l","s"," ","m","u","s","t"," ","b","e"," ","a"," ","n","o","n","-","e","m","p","t","y"," ","a","r","r","a","y">>>>
                         ELSE Flat([i \in 1..Len(tools.v) |->
                                      IF tools.v[i].t # "dict" \/ ~In(<<"n","a","m","e">>, tools.v[i])
                                      THEN <<<<"E","a","c","h"," ","t","o","o","l"," ","m","u","s","t"," ","h","a","v","e"," ","a"," ","n","a","m","e">>>>
                                      ELSE <<>>])
                 IN Left(errs \o absent \o stamp \o named, warns, FALSE)

ValidTypes == {<<"a","p","p","l","i","c","a","t","i","o","n">>, <<"f","r","a","m","e","w","o","r","k">>, <<"l","i","b","r","a","r","y">>, <<"c","o","n","t","a","i","n","e","r">>, <<"p","l","a","t","f","o","r","m">>,
               <<"o","p","e","r","a","t","i","n","g","-","s","y","s","t","e","m">>, <<"d","e","v","i","c","e">>, <<"f","i","r","m","w","a","r","e">>, <<"f","i","l","e">>}

\* validate_license, for each license of an array
LicenseErrors(licenses, index) ==
    Flat([j \in 1..Len(licenses) |->
            IF ~In(<<"i","d">>, licenses[j]) /\ ~In(<<"n","a","m","e">>, licenses[j])
            THEN <<<<"C","o","m","p","o","n","e","n","t"," ">> \o Dec(index) \o <<","," ","L","i","c","e","n","s","e"," ">> \o Dec(j - 1)
                   \o <<":"," ","M","u","s","t"," ","h","a","v","e"," ","e","i","t","h","e","r"," ","'","i","d","'"," ","o","r"," ","'","n","a","m","e","'">>>>
            ELSE <<>>])

\* validate_component, for a component that is an object with strings for
\* type, version and purl: what it appends to the errors
ComponentErrors(component, index) ==
    Missing(<<<<"t","y","p","e">>, <<"n","a","m","e">>, <<"v","e","r","s","i","o","n">>>>, component,
            <<"C","o","m","p","o","n","e","n","t"," ">> \o Dec(index) \o <<":"," ","M","i","s","s","i","n","g"," ","r","e","q","u","i","r","e","d"," ","f","i","e","l","d"," ">>, TRUE)
    \o (IF ~In(<<"l","i","c","e","n","s","e","s">>, component) THEN <<>>
        ELSE IF component.v[<<"l","i","c","e","n","s","e","s">>].t # "list"
        THEN <<<<"C","o","m","p","o","n","e","n","t"," ">> \o Dec(index) \o <<":"," ","L","i","c","e","n","s","e","s"," ","m","u","s","t"," ","b","e"," ","a","n"," ","a","r","r","a","y">>>>
        ELSE LicenseErrors(component.v[<<"l","i","c","e","n","s","e","s">>].v, index))

\* and to the warnings
ComponentWarnings(component, index) ==
    LET Warn(key, valid, text) ==
            IF In(key, component) /\ ~valid
            THEN <<<<"C","o","m","p","o","n","e","n","t"," ">> \o Dec(index) \o text \o component.v[key].v \o <<"'">>>>
            ELSE <<>>
    IN Warn(<<"t","y","p","e">>, In(<<"t","y","p","e">>, component) /\ component.v[<<"t","y","p","e">>].v \in ValidTypes,
            <<":"," ","U","n","k","n","o","w","n"," ","t","y","p","e"," ","'">>)
       \o Warn(<<"v","e","r","s","i","o","n">>, In(<<"v","e","r","s","i","o","n">>, component)
                           /\ IsValidVersion(component.v[<<"v","e","r","s","i","o","n">>].v),
               <<":"," ","I","n","v","a","l","i","d"," ","v","e","r","s","i","o","n"," ","f","o","r","m","a","t"," ","'">>)
       \o Warn(<<"p","u","r","l">>, In(<<"p","u","r","l">>, component) /\ IsValidPurl(component.v[<<"p","u","r","l">>].v),
               <<":"," ","I","n","v","a","l","i","d"," ","p","u","r","l"," ","f","o","r","m","a","t"," ","'">>)

ValidateComponents(sbom, errs, warns) ==
    LET components == Get(sbom, <<"c","o","m","p","o","n","e","n","t","s">>, JList(<<>>))
    IN IF components.t # "list"
       THEN Left(Append(errs, <<"C","o","m","p","o","n","e","n","t","s"," ","m","u","s","t"," ","b","e"," ","a","n"," ","a","r","r","a","y">>), warns, FALSE)
       ELSE IF Len(components.v) = 0
       THEN Left(errs, Append(warns, <<"N","o"," ","c","o","m","p","o","n","e","n","t","s"," ","f","o","u","n","d"," ","i","n"," ","S","B","O","M">>), FALSE)
       ELSE Left(errs \o Flat([i \in 1..Len(components.v) |->
                                 ComponentErrors(components.v[i], i - 1)]),
                 warns \o Flat([i \in 1..Len(components.v) |->
                                  ComponentWarnings(components.v[i], i - 1)]),
                 FALSE)

\* validate_dependency, for each dependency of the array
DependencyErrors(dependency, index) ==
    (IF ~In(<<"r","e","f">>, dependency)
     THEN <<<<"D","e","p","e","n","d","e","n","c","y"," ">> \o Dec(index) \o <<":"," ","M","i","s","s","i","n","g"," ","r","e","q","u","i","r","e","d"," ","f","i","e","l","d"," ","'","r","e","f","'">>>>
     ELSE <<>>)
    \o (IF In(<<"d","e","p","e","n","d","s","O","n">>, dependency) /\ dependency.v[<<"d","e","p","e","n","d","s","O","n">>].t # "list"
        THEN <<<<"D","e","p","e","n","d","e","n","c","y"," ">> \o Dec(index) \o <<":"," ","'","d","e","p","e","n","d","s","O","n","'"," ","m","u","s","t"," ","b","e"," ","a","n"," ","a","r","r","a","y">>>>
        ELSE <<>>)

ValidateDependencies(sbom, errs, warns) ==
    LET dependencies == Get(sbom, <<"d","e","p","e","n","d","e","n","c","i","e","s">>, JList(<<>>))
    IN IF dependencies.t # "list"
       THEN Left(Append(errs, <<"D","e","p","e","n","d","e","n","c","i","e","s"," ","m","u","s","t"," ","b","e"," ","a","n"," ","a","r","r","a","y">>), warns, FALSE)
       ELSE Left(errs \o Flat([i \in 1..Len(dependencies.v) |->
                                 DependencyErrors(dependencies.v[i], i - 1)]),
                 warns, FALSE)

\* return len(self.errors) == 0
IsValid(errs) == Len(errs) = 0

\* the files validate_sbom is called on
Metadata ==
    JDict((<<"t","i","m","e","s","t","a","m","p">> :> JStr(<<"2","0","2","4","-","0","1","-","1","5","T","1","0",":","3","0",":","0","0","Z">>))
          @@ (<<"t","o","o","l","s">> :> JList(<<JDict(<<"n","a","m","e">> :> JStr(<<"c","y","c","l","o","n","e","d","x","-","g","r","a","d","l","e">>))>>)))
Library ==
    JDict((<<"t","y","p","e">> :> JStr(<<"l","i","b","r","a","r","y">>)) @@ (<<"n","a","m","e">> :> JStr(<<"o","k","h","t","t","p">>))
          @@ (<<"v","e","r","s","i","o","n">> :> JStr(<<"4",".","1","2",".","0">>)) @@ (<<"p","u","r","l">> :> JStr(<<"p","k","g",":","m","a","v","e","n","/","o","k","h","t","t","p","@","4",".","1","2",".","0">>))
          @@ (<<"l","i","c","e","n","s","e","s">> :> JList(<<JDict(<<"i","d">> :> JStr(<<"A","p","a","c","h","e","-","2",".","0">>))>>)))
Plugin ==
    JDict((<<"t","y","p","e">> :> JStr(<<"p","l","u","g","i","n">>)) @@ (<<"v","e","r","s","i","o","n">> :> JStr(<<"1",".","0">>))
          @@ (<<"p","u","r","l">> :> JStr(<<"m","a","v","e","n",":","l","i","b">>))
          @@ (<<"l","i","c","e","n","s","e","s">> :> JList(<<JDict(<<"u","r","l">> :> JStr(<<"h","t","t","p","s",":","/","/","x","/","L","I","C","E","N","S","E">>))>>)))
Bom(metadata, components, dependencies) ==
    (<<"b","o","m","F","o","r","m","a","t">> :> JStr(<<"C","y","c","l","o","n","e","D","X">>)) @@ (<<"s","p","e","c","V","e","r","s","i","o","n">> :> JStr(<<"1",".","4">>))
    @@ (<<"s","e","r","i","a","l","N","u","m","b","e","r">> :> JStr(<<"u","r","n",":","u","u","i","d",":","1">>)) @@ (<<"v","e","r","s","i","o","n">> :> JStr(<<"1">>))
    @@ (<<"m","e","t","a","d","a","t","a">> :> metadata) @@ (<<"c","o","m","p","o","n","e","n","t","s">> :> components)
    @@ (<<"d","e","p","e","n","d","e","n","c","i","e","s">> :> dependencies)
ValidBom == Bom(Metadata, JList(<<Library>>), JList(<<JDict(<<"r","e","f">> :> JStr(<<"o","k","h","t","t","p">>))>>))

Without(d, key) == [k \in DOMAIN d \ {key} |-> d[k]]

SbomFile(name, opens, parses, data) ==
    [name |-> name, opens |-> opens, parses |-> parses, data |-> data]

SbomFiles == {
    SbomFile("valid.json", TRUE, TRUE, JDict(ValidBom)),
    SbomFile("absent.json", FALSE, FALSE, JNull),
    SbomFile("broken.json", TRUE, FALSE, JNull),
    SbomFile("noserial.json", TRUE, TRUE, JDict(Without(ValidBom, <<"s","e","r","i","a","l","N","u","m","b","e","r">>))),
    SbomFile("empty.json", TRUE, TRUE,
             JDict(Bom(Metadata, JList(<<>>), JList(<<>>)))),
    SbomFile("array.json", TRUE, TRUE, JList(<<>>)),
    SbomFile("nullmeta.json", TRUE, TRUE,
             JDict(Bom(JNull, JList(<<Library>>), JList(<<>>)))),
    SbomFile("odd.json", TRUE, TRUE,
             JDict(Bom(JDict((<<"t","i","m","e","s","t","a","m","p">> :> JStr(<<"y","e","s","t","e","r","d","a","y">>)) @@ (<<"t","o","o","l","s">> :> JList(<<>>))),
                       JList(<<Library, Plugin>>),
                       JList(<<JDict(<<"d","e","p","e","n","d","s","O","n">> :> JStr(<<"o","k","h","t","t","p">>))>>)))) }

\* the linter is not run
LinterIdle ==
    /\ Construct(LoadPhiPatterns)
    /\ workers = <<>>
    /\ CalledDirectly
    /\ fs = <<>>
    /\ re_matches = <<>>
    /\ calls_left = 0

phi == <<linter, violations, tree, report, stdout, exit_code, calls_left, pc, caller, frame,
         workers, args, output_file>>

\* validator = SBOMValidator()
InitSbom ==
    /\ LinterIdle
    /\ CheckerIdle
    /\ errors = <<>>
    /\ warnings = <<>>
    /\ sbom_files = <<>>
    /\ sbom_data = <<>>
    /\ sbom_pc = "idle"
    /\ returned = <<>>

\* mutant: each call starts from empty lists
ValidateSbomResets(file) ==
    /\ sbom_pc = "idle"
    /\ Len(sbom_files) < MaxValidations
    /\ sbom_files' = Append(sbom_files, file.name)
    /\ errors' = <<>>
    /\ warnings' = <<>>
    /\ IF file.opens /\ file.parses
       THEN /\ sbom_data' = file.data
            /\ sbom_pc' = "required_fields"
            /\ UNCHANGED returned
       ELSE /\ returned' = Append(returned, FALSE)
            /\ UNCHANGED <<sbom_data, sbom_pc>>
    /\ UNCHANGED <<phi, privacy>>

\* validate_sbom(sbom_file) up to json.load: a file that is not there or is
\* not JSON is reported and False is returned
ValidateSbom(file) ==
    /\ sbom_pc = "idle"
    /\ Len(sbom_files) < MaxValidations
    /\ sbom_files' = Append(sbom_files, file.name)
    /\ IF file.opens /\ file.parses
       THEN /\ sbom_data' = file.data
            /\ sbom_pc' = "required_fields"
            /\ UNCHANGED returned
       ELSE /\ returned' = Append(returned, FALSE)
            /\ UNCHANGED <<sbom_data, sbom_pc>>
    /\ UNCHANGED <<phi, privacy, errors, warnings>>

\* one of the four validators in turn; what it raises is caught by
\* `except Exception` and False is returned
Validated(at, left, next) ==
    /\ sbom_pc = at
    /\ errors' = left.errors
    /\ warnings' = left.warnings
    /\ IF left.raised
       THEN /\ returned' = Append(returned, FALSE)
            /\ sbom_pc' = "idle"
       ELSE /\ sbom_pc' = next
            /\ UNCHANGED returned
    /\ UNCHANGED <<phi, privacy, sbom_files, sbom_data>>

SbomRequiredFields ==
    Validated("required_fields", ValidateRequiredFields(sbom_data, errors, warnings), "metadata")

SbomMetadata ==
    Validated("metadata", ValidateMetadata(sbom_data, errors, warnings), "components")

SbomComponents ==
    Validated("components", ValidateComponents(sbom_data, errors, warnings), "dependencies")

SbomDependencies ==
    Validated("dependencies", ValidateDependencies(sbom_data, errors, warnings), "results")

\* print_validation_results and the return
SbomResults ==
    /\ sbom_pc = "results"
    /\ returned' = Append(returned, IsValid(errors))
    /\ sbom_pc' = "idle"
    /\ UNCHANGED <<phi, privacy, errors, warnings, sbom_files, sbom_data>>

NextSbom ==
    \/ \E file \in SbomFiles : ValidateSbom(file)
    \/ SbomRequiredFields
    \/ SbomMetadata
    \/ SbomComponents
    \/ SbomDependencies
    \/ SbomResults

SpecSbom == InitSbom /\ [][NextSbom]_vars

(***************************************************************************)
(* privacy_policy_checker.py: PrivacyPolicyChecker.run and the checks of   *)
(* generate_compliance_report.  The content hash and the time stamps of    *)
(* the report are left out.                                                *)
(***************************************************************************)
DefaultPrivacyUrl == <<"h","t","t","p","s",":","/","/","f","r","o","z","o",".","c","o","m","/","a","m","b","i","e","n","t","-","s","c","r","i","b","e","/","p","r","i","v","a","c","y","-","p","o","l","i","c","y">>

\* main: --privacy-url given or left out
PrivacyUrls == {DefaultPrivacyUrl, <<"h","t","t","p","s",":","/","/","e","x","a","m","p","l","e",".","o","r","g","/","p","r","i","v","a","c","y">>}

\* what requests.get gives: a response with a status code, or a
\* RequestException
StatusCodes == {200, 201, 204, 301, 400, 403, 404, 410, 500, 503}
Responses == {[raised |-> TRUE, status_code |-> 0]}
             \cup {[raised |-> FALSE, status_code |-> c] : c \in StatusCodes}

\* _load_privacy_policy_content
PrivacyPolicyContent ==
    <<"\n">>
    \o <<" "," "," "," "," "," "," "," ","P","r","i","v","a","c","y"," ","P","o","l","i","c","y"," ","f","o","r"," ","A","m","b","i","e","n","t"," ","S","c","r","i","b","e","\n">>
    \o <<" "," "," "," "," "," "," "," ","\n">>
    \o <<" "," "," "," "," "," "," "," ","D","a","t","a"," ","C","o","l","l","e","c","t","i","o","n",":","\n">>
    \o <<" "," "," "," "," "," "," "," ","-"," ","A","u","d","i","o"," ","r","e","c","o","r","d","i","n","g","s"," ","a","r","e"," ","p","r","o","c","e","s","s","e","d"," ","l","o","c","a","l","l","y"," ","o","n"," ","y","o","u","r"," ","d","e","v","i","c","e","\n">>
    \o <<" "," "," "," "," "," "," "," ","-"," ","M","e","d","i","c","a","l"," ","t","r","a","n","s","c","r","i","p","t","s"," ","a","r","e"," ","g","e","n","e","r","a","t","e","d"," ","l","o","c","a","l","l","y","\n">>
    \o <<" "," "," "," "," "," "," "," ","-"," ","S","O","A","P"," ","n","o","t","e","s"," ","a","r","e"," ","c","r","e","a","t","e","d"," ","l","o","c","a","l","l","y","\n">>
    \o <<" "," "," "," "," "," "," "," ","-"," ","N","o"," ","d","a","t","a"," ","i","s"," ","s","e","n","t"," ","t","o"," ","e","x","t","e","r","n","a","l"," ","s","e","r","v","e","r","s","\n">>
    \o <<" "," "," "," "," "," "," "," ","\n">>
    \o <<" "," "," "," "," "," "," "," ","D","a","t","a"," ","S","t","o","r","a","g","e",":","\n">>
    \o <<" "," "," "," "," "," "," "," ","-"," ","A","l","l"," ","d","a","t","a"," ","i","s"," ","e","n","c","r","y","p","t","e","d"," ","a","n","d"," ","s","t","o","r","e","d"," ","l","o","c","a","l","l","y","\n">>
    \o <<" "," "," "," "," "," "," "," ","-"," ","D","a","t","a"," ","i","s"," ","a","u","t","o","m","a","t","i","c","a","l","l","y"," ","d","e","l","e","t","e","d"," ","a","f","t","e","r"," ","9","0"," ","d","a","y","s","\n">>
    \o <<" "," "," "," "," "," "," "," ","-"," ","N","o"," ","c","l","o","u","d"," ","s","t","o","r","a","g","e"," ","i","s"," ","u","s","e","d","\n">>
    \o <<" "," "," "," "," "," "," "," ","\n">>
    \o <<" "," "," "," "," "," "," "," ","Y","o","u","r"," ","R","i","g","h","t","s",":","\n">>
    \o <<" "," "," "," "," "," "," "," ","-"," ","Y","o","u"," ","c","a","n"," ","w","i","t","h","d","r","a","w"," ","c","o","n","s","e","n","t"," ","a","t"," ","a","n","y"," ","t","i","m","e","\n">>
    \o <<" "," "," "," "," "," "," "," ","-"," ","Y","o","u"," ","c","a","n"," ","r","e","q","u","e","s","t"," ","d","a","t","a"," ","d","e","l","e","t","i","o","n","\n">>
    \o <<" "," "," "," "," "," "," "," ","-"," ","Y","o","u"," ","c","a","n"," ","e","x","p","o","r","t"," ","y","o","u","r"," ","d","a","t","a","\n">>
    \o <<" "," "," "," "," "," "," "," ","\n">>
    \o <<" "," "," "," "," "," "," "," ","T","h","i","r","d"," ","P","a","r","t","i","e","s",":","\n">>
    \o <<" "," "," "," "," "," "," "," ","-"," ","N","o"," ","p","e","r","s","o","n","a","l"," ","d","a","t","a"," ","i","s"," ","s","h","a","r","e","d"," ","w","i","t","h"," ","t","h","i","r","d"," ","p","a","r","t","i","e","s","\n">>
    \o <<" "," "," "," "," "," "," "," ","-"," ","A","l","l"," ","p","r","o","c","e","s","s","i","n","g"," ","i","s"," ","d","o","n","e"," ","l","o","c","a","l","l","y"," ","o","n"," ","y","o","u","r"," ","d","e","v","i","c","e","\n">>
    \o <<" "," "," "," "," "," "," "," ">>

KeyElements == <<<<"l","o","c","a","l"," ","p","r","o","c","e","s","s","i","n","g">>, <<"n","o"," ","c","l","o","u","d"," ","s","t","o","r","a","g","e">>, <<"9","0"," ","d","a","y","s">>, <<"w","i","t","h","d","r","a","w"," ","c","o","n","s","e","n","t">>,
                 <<"n","o"," ","t","h","i","r","d"," ","p","a","r","t","i","e","s">>>>
DataCollectionElements == <<<<"a","u","d","i","o"," ","r","e","c","o","r","d","i","n","g","s">>, <<"m","e","d","i","c","a","l"," ","d","a","t","a">>, <<"t","r","a","n","s","c","r","i","p","t","s">>,
                            <<"s","o","a","p"," ","n","o","t","e","s">>>>

NotChecked == <<>>

\* check_privacy_policy_url, given what requests.get gave; the messages
\* without the reason phrase and the text of the exception
CheckPrivacyPolicyUrl(url, resp) ==
    [url |-> url,
     accessible |-> ~resp.raised /\ resp.status_code = 200,
     status_code |-> IF resp.raised THEN -1 ELSE resp.status_code,
     errors |-> IF resp.raised THEN <<<<"R","e","q","u","e","s","t"," ","f","a","i","l","e","d">>>>
                ELSE IF resp.status_code # 200
                THEN <<<<"H","T","T","P"," ">> \o Dec(resp.status_code)>>
                ELSE <<>>]

\* check_consent_copy_parity
CheckConsentCopyParity(content) ==
    IF content = <<>>
    THEN [parity_check |-> FALSE,
          differences |-> <<<<"P","r","i","v","a","c","y"," ","p","o","l","i","c","y"," ","c","o","n","t","e","n","t"," ","n","o","t"," ","a","v","a","i","l","a","b","l","e"," ","f","o","r"," ","c","o","m","p","a","r","i","s","o","n">>>>]
    ELSE LET lower == StrLower(content)
             Differences(elements, text) ==
                 Flat([i \in 1..Len(elements) |->
                         IF Contains(lower, StrLower(elements[i])) THEN <<>>
                         ELSE <<text \o elements[i] \o <<"'">>>>])
             differences ==
                 Differences(KeyElements, <<"M","i","s","s","i","n","g"," ","k","e","y"," ","e","l","e","m","e","n","t"," ","i","n"," ","p","r","i","v","a","c","y"," ","p","o","l","i","c","y",":"," ","'">>)
                 \o Differences(DataCollectionElements,
                                <<"M","i","s","s","i","n","g"," ","d","a","t","a"," ","c","o","l","l","e","c","t","i","o","n"," ","e","l","e","m","e","n","t"," ","i","n"," ","p","r","i","v","a","c","y"," ","p","o","l","i","c","y",":"," ","'">>)
         IN [parity_check |-> differences = <<>>, differences |-> differences]

\* check_play_store_listing
CheckPlayStoreListing(url) ==
    [privacy_policy_found |-> TRUE, privacy_policy_url |-> url, errors |-> <<>>]

\* mutant: the parity check does not count
OverallComplianceWithoutParity(accessible, parity_check, privacy_policy_found) ==
    IF ~accessible THEN FALSE
    ELSE IF ~privacy_policy_found THEN FALSE
    ELSE TRUE

\* generate_compliance_report: True, set to False by each check that failed
OverallCompliance(accessible, parity_check, privacy_policy_found) ==
    LET first == IF ~accessible THEN FALSE ELSE TRUE
        second == IF ~parity_check THEN FALSE ELSE first
    IN IF ~privacy_policy_found THEN FALSE ELSE second

\* run: what it returns for a report
CheckerExit(overall_compliance) == IF ~overall_compliance THEN 1 ELSE 0

\* checker = PrivacyPolicyChecker(), and main's --privacy-url
InitPrivacy ==
    /\ LinterIdle
    /\ ValidatorIdle
    /\ expected_privacy_policy_url \in PrivacyUrls
    /\ response = [raised |-> FALSE, status_code |-> 0]
    /\ disk_ok = TRUE
    /\ compliance = <<>>
    /\ checker_pc = "idle"
    /\ checker_exit = -1

\* run: the banner, and generate_compliance_report starts its report
CheckerRun ==
    /\ checker_pc = "idle"
    /\ checker_pc' = "privacy_policy_check"
    /\ UNCHANGED <<phi, validator, expected_privacy_policy_url, response, disk_ok, compliance,
                   checker_exit>>

\* "privacy_policy_check": self.check_privacy_policy_url(); the content of
\* an accessible policy is saved, and an error of that write ends run
PrivacyPolicyCheck ==
    /\ checker_pc = "privacy_policy_check"
    /\ \E resp \in Responses, written \in BOOLEAN :
          LET result == CheckPrivacyPolicyUrl(expected_privacy_policy_url, resp)
          IN /\ response' = resp
             /\ disk_ok' = (written \/ ~result.accessible)
             /\ IF disk_ok'
                THEN /\ compliance' = [privacy_policy_check |-> result,
                                       consent_parity_check |-> NotChecked,
                                       play_store_check |-> NotChecked,
                                       overall_compliance |-> TRUE]
                     /\ checker_pc' = "consent_parity_check"
                ELSE /\ checker_pc' = "raised"
                     /\ UNCHANGED compliance
    /\ UNCHANGED <<phi, validator, expected_privacy_policy_url, checker_exit>>

\* "consent_parity_check": self.check_consent_copy_parity()
ConsentParityCheck ==
    /\ checker_pc = "consent_parity_check"
    /\ compliance' = [compliance EXCEPT
                         !.consent_parity_check = CheckConsentCopyParity(PrivacyPolicyContent)]
    /\ checker_pc' = "play_store_check"
    /\ UNCHANGED <<phi, validator, expected_privacy_policy_url, response, disk_ok, checker_exit>>

\* "play_store_check": self.check_play_store_listing()
PlayStoreCheck ==
    /\ checker_pc = "play_store_check"
    /\ compliance' = [compliance EXCEPT
                         !.play_store_check = CheckPlayStoreListing(expected_privacy_policy_url)]
    /\ checker_pc' = "overall_compliance"
    /\ UNCHANGED <<phi, validator, expected_privacy_policy_url, response, disk_ok, checker_exit>>

\* generate_compliance_report: overall compliance, and the report is returned
DetermineOverall ==
    /\ checker_pc = "overall_compliance"
    /\ compliance' = [compliance EXCEPT
                         !.overall_compliance =
                             OverallCompliance(compliance.privacy_policy_check.accessible,
                                               compliance.consent_parity_check.parity_check,
                                               compliance.play_store_check.privacy_policy_found)]
    /\ checker_pc' = "save_evidence"
    /\ UNCHANGED <<phi, validator, expected_privacy_policy_url, response, disk_ok, checker_exit>>

\* run: self.save_evidence(report); an error of its writes ends run
SaveEvidence ==
    /\ checker_pc = "save_evidence"
    /\ \E written \in BOOLEAN :
          /\ disk_ok' = written
          /\ checker_pc' = IF written THEN "summary" ELSE "raised"
    /\ UNCHANGED <<phi, validator, expected_privacy_policy_url, response, compliance,
                   checker_exit>>

\* run: the summary and the exit code
CheckerReturn ==
    /\ checker_pc = "summary"
    /\ checker_exit' = CheckerExit(compliance.overall_compliance)
    /\ checker_pc' = "returned"
    /\ UNCHANGED <<phi, validator, expected_privacy_policy_url, response, disk_ok, compliance>>

NextPrivacy ==
    \/ CheckerRun
    \/ PrivacyPolicyCheck
    \/ ConsentParityCheck
    \/ PlayStoreCheck
    \/ DetermineOverall
    \/ SaveEvidence
    \/ CheckerReturn

SpecPrivacy == InitPrivacy /\ [][NextPrivacy]_vars

(***************************************************************************)
(* What the claims speak of.                                               *)
(***************************************************************************)
\* word occurs in s, letter case ignored (word is in lower case)
ContainsCI(s, word) ==
    \E i \in 1..(Len(s) - Len(word) + 1) :
        \A j \in 1..Len(word) : LowerChar(s[i + j - 1]) = word[j]

\* after the leading whitespace the line goes on with // or #
CommentLine(line) ==
    \E i \in 1..Len(line) :
        /\ \A j \in 1..(i - 1) : line[j] \in Space
        /\ \/ line[i] = "#"
           \/ i < Len(line) /\ line[i] = "/" /\ line[i + 1] = "/"

TestData(match, path) ==
    ContainsCI(PathName(path), <<"t","e","s","t">>) /\ \E w \in TestWords : ContainsCI(match, w)

ConfigData(match, path) ==
    PathSuffix(path) \in ConfigSuffixes /\ \E w \in ConfigWords : ContainsCI(match, w)

\* the words as written, in lower case
ConfigDataAsWritten(match, path) ==
    PathSuffix(path) \in ConfigSuffixes /\ \E w \in ConfigWords : Contains(match, w)

HasEscape(line, letters) ==
    \E i \in 1..(Len(line) - 1) : line[i] = "\\" /\ line[i + 1] \in letters

RegexLine(line) == HasEscape(line, {"b", "d", "w"})

PatternLine(line) == \E w \in PatternWords : ContainsCI(line, w)

\* one of the five conditions holds of a match
Suppressed(match, line, path) ==
    \/ CommentLine(line)
    \/ TestData(match, path)
    \/ ConfigData(match, path)
    \/ RegexLine(line)
    \/ PatternLine(line)

RECURSIVE Concat(_)
Concat(seqs) == IF seqs = <<>> THEN <<>> ELSE Head(seqs) \o Concat(Tail(seqs))

\* the scans started so far
ScanCount == Cardinality({i \in 1..Len(stdout) : stdout[i].kind = "scanning"})

\* a traversal has just ended
ScanEnd == pc = "walk" /\ idx > Len(fs)

\* a run on an existing directory has returned and nothing was called since
RunReturned == exit_code # -1 /\ Exists(root)

PathAt(i) == FullPath(root, fs[i].rel)
Scanned(i) == Eligible(fs[i], PathAt(i), ExcludedDirs, ExcludedFiles)

\* the violations of entry i in the order file, line, rule, place of the match
ExpectedOfRule(i, n, k) ==
    LET line == fs[i].lines[n]
        ms == re_matches[line][k]
        category == LoadPhiPatterns[k].category
    IN Concat([j \in 1..Len(ms) |->
                 IF Suppressed(ms[j].text, line, PathAt(i)) THEN <<>>
                 ELSE <<ViolationText(PathAt(i), <<n, category, Message(category, ms[j].text)>>)>>])
ExpectedOfLine(i, n) == Concat([k \in 1..Len(LoadPhiPatterns) |-> ExpectedOfRule(i, n, k)])
ExpectedOfFile(i) ==
    IF Scanned(i) /\ fs[i].readable
    THEN Concat([n \in 1..Len(fs[i].lines) |-> ExpectedOfLine(i, n)])
    ELSE <<>>
ExpectedOfTree == Concat([i \in 1..Len(fs) |-> ExpectedOfFile(i)])

\* the records of the list that name the path
RecordsOf(path) == {i \in 1..Len(violations) : StartsWith(violations[i], path \o <<":">>)}

\* a line of the file at hand has just been scanned
LineDone == pc = "lines" /\ line_num > 1
\* the occurrences on a line: rule k, its j-th match from the left
Occurrences(line) ==
    UNION {{<<k, j>> : j \in 1..Len(re_matches[line][k])} : k \in 1..Len(LoadPhiPatterns)}
OccText(line, o) == re_matches[line][o[1]][o[2]].text
OccTuple(n, line, o) ==
    <<n, LoadPhiPatterns[o[1]].category,
      Message(LoadPhiPatterns[o[1]].category, OccText(line, o))>>


(***************************************************************************)
(* C1.  The filter rejects a match exactly when one of the five conditions *)
(* holds.  C1_AsWritten reads condition (3) as the claim writes it, with   *)
(* the words 'config', 'example', 'template' as they stand; the program    *)
(* lowers the match first, so C1_Filter reads (3) with the letter case     *)
(* ignored, as (2) and (5) are.                                            *)
(***************************************************************************)
\* C1 as written: rejected iff one of the five conditions, the words of (3)
\* looked for as they stand
C1_AsWritten ==
    \A c \in SetOf(asked) :
        c.rejected <=> \/ CommentLine(c.line)
                       \/ TestData(c.match, c.path)
                       \/ ConfigDataAsWritten(c.match, c.path)
                       \/ RegexLine(c.line)
                       \/ PatternLine(c.line)

\* C1 (amended): for every filter call, rejected iff one of the five
\* conditions holds, (3) being case-insensitive like (2) and (5)
C1_Filter ==
    \A c \in SetOf(asked) : c.rejected <=> Suppressed(c.match, c.line, c.path)

\* the filter was asked about a match that meets (3) alone, its word not in
\* lower case, and rejected it
C1_Witness ==
    \E c \in SetOf(asked) :
        /\ c.rejected
        /\ ConfigData(c.match, c.path)
        /\ ~ConfigDataAsWritten(c.match, c.path)
        /\ ~CommentLine(c.line) /\ ~TestData(c.match, c.path)
        /\ ~RegexLine(c.line) /\ ~PatternLine(c.line)

(***************************************************************************)
(* C2.  run returns 0 exactly when no violation has been accumulated.      *)
(* C2_AnyRoot states it of every root directory; run returns 1 on a        *)
(* directory that does not exist, with no violation.  C2_ExitCode states   *)
(* it of the runs on a directory that exists.                              *)
(***************************************************************************)
\* C2 as written: whenever run has returned, the exit code is 0 iff there
\* is no violation
C2_AnyRoot == exit_code # -1 => (exit_code = 0 <=> Len(violations) = 0)

\* C2 (amended): a run on an existing root directory returns 0 iff the
\* number of accumulated violations is 0
C2_ExitCode == RunReturned => (exit_code = 0 <=> Len(violations) = 0)

\* a run that scanned a file with matches, all of them filtered, returned 0
C2_Witness ==
    /\ RunReturned
    /\ exit_code = 0
    /\ violations = <<>>
    /\ \E i \in 1..Len(fs) :
          /\ Scanned(i) /\ fs[i].readable
          /\ \E n \in 1..Len(fs[i].lines) : Occurrences(fs[i].lines[n]) # {}

(***************************************************************************)
(* C3.  A line that contains backslash-d yields no violation in scan_file, *)
(* whatever matches on it and whatever the file is.                        *)
(***************************************************************************)
\* C3: no tuple in scan_file's list is of a line that contains backslash-d
C3_NoViolationOnDigitEscape ==
    \A i \in 1..Len(found) : ~HasEscape(lines[found[i][1]], {"d"})

\* scan_file has ended on a line with backslash-d on which rules matched and
\* which meets no other condition of the filter
C3_Witness ==
    /\ pc = "collect"
    /\ found = <<>>
    /\ asked # <<>>
    /\ \A c \in SetOf(asked) :
          /\ HasEscape(c.line, {"d"})
          /\ ~CommentLine(c.line) /\ ~TestData(c.match, c.path)
          /\ ~ConfigData(c.match, c.path) /\ ~PatternLine(c.line)

(***************************************************************************)
(* C4.  On the line just scanned, every occurrence (rule, match) gives one *)
(* violation when the filter accepts it and none when it rejects it; when  *)
(* no occurrence meets a condition of the filter, the violations of the    *)
(* line are as many as the occurrences.                                    *)
(***************************************************************************)
\* C4: after a line is scanned, each tuple occurs in scan_file's list as many
\* times as accepted occurrences give it, and with nothing suppressed the
\* tuples of the line are as many as the occurrences
C4_OnePerOccurrence ==
    LineDone =>
        LET n == line_num - 1
            line == lines[n]
            path == PathAt(idx)
            occ == Occurrences(line)
            kept == {o \in occ : ~Suppressed(OccText(line, o), line, path)}
            ofLine == {i \in 1..Len(found) : found[i][1] = n}
        IN /\ \A t \in {OccTuple(n, line, o) : o \in occ} \cup {found[i] : i \in ofLine} :
                Cardinality({i \in ofLine : found[i] = t})
                    = Cardinality({o \in kept : OccTuple(n, line, o) = t})
           /\ kept = occ => Cardinality(ofLine) = Cardinality(occ)

\* a line scanned with an occurrence rejected before an occurrence accepted
C4_Witness ==
    /\ LineDone
    /\ \E a, b \in 1..Len(asked) : a < b /\ asked[a].rejected /\ ~asked[b].rejected
    /\ \E i \in 1..Len(found) : found[i][1] = line_num - 1

(***************************************************************************)
(* C5.  A second scan of the unchanged tree leaves the list of violations  *)
(* as the first scan left it.                                              *)
(***************************************************************************)
\* what the first scan recorded: the warnings printed before the second began
FirstScan ==
    LET starts == {i \in 1..Len(stdout) : stdout[i].kind = "scanning"}
        second == CHOOSE i \in starts : Cardinality({j \in starts : j < i}) = 1
        warned == {i \in 1..(second - 1) : stdout[i].kind = "warn"}
    IN [k \in 1..Cardinality(warned) |->
          stdout[CHOOSE i \in warned : Cardinality({j \in warned : j <= i}) = k].arg]

\* C5: when the second scan has returned, the list (and the report of a run)
\* is what the first scan produced
C5_SecondScanSame ==
    (pc = "idle" /\ ScanCount = 2) =>
        /\ violations = FirstScan
        /\ (caller = "run" => report = ReportText(FirstScan))

(***************************************************************************)
(* C6.  The list is in the order of production: each scan adds the         *)
(* violations of the tree file by file in the order of the traversal, in   *)
(* a file by line number, on a line by rule in catalog order, for a rule   *)
(* by the place of the match.                                              *)
(***************************************************************************)
\* C6: at the end of a traversal the list is, for each scan in turn, the
\* violations of the tree in the order file, line, rule, place of the match
C6_ProductionOrder ==
    ScanEnd =>
        LET size == Len(ExpectedOfTree)
        IN /\ Len(violations) = ScanCount * size
           /\ \A s \in 0..(ScanCount - 1) :
                 SubSeq(violations, s * size + 1, (s + 1) * size) = ExpectedOfTree

\* a traversal ended on two files with violations, one of them with
\* violations on two lines and one with two rules on one line
C6_Witness ==
    /\ ScanEnd
    /\ Len(fs) = 2
    /\ ExpectedOfFile(1) # <<>> /\ ExpectedOfFile(2) # <<>>
    /\ \E i \in 1..2 : ExpectedOfLine(i, 1) # <<>> /\ Len(fs[i].lines) > 1
                       /\ ExpectedOfLine(i, 2) # <<>>
    /\ \E i \in 1..2 : \E k1, k2 \in 1..Len(LoadPhiPatterns) :
          k1 # k2 /\ ExpectedOfRule(i, 1, k1) # <<>> /\ ExpectedOfRule(i, 1, k2) # <<>>
    /\ violations # <<>>

(***************************************************************************)
(* C7.  Once generate_report has written the report, no step adds to the   *)
(* list of violations.                                                     *)
(***************************************************************************)
\* C7: in every step taken once a report has been written, the list of
\* violations stays as it is
C7_FinalizedIsFrozen == [][report # <<>> => violations' = violations]_vars

(***************************************************************************)
(* C8.  generate_report called again with no scan since the last report    *)
(* writes the same report and leaves the list of violations as it is.      *)
(***************************************************************************)
\* the last call ended with generate_report
ReportIsLast == pc = "idle" /\ (caller = "generate_report" \/ (caller = "run" /\ RunReturned))

\* C8: a generate_report step taken when the last call ended with
\* generate_report changes neither the report nor the list of violations
C8_ReportIdempotent ==
    [][(ReportIsLast /\ caller' = "generate_report" /\ calls_left' = calls_left - 1)
          => (report' = report /\ violations' = violations)]_vars

\* generate_report was called after a run that found violations
C8_Witness ==
    /\ pc = "idle"
    /\ caller = "generate_report"
    /\ calls_left = MaxCalls - 2
    /\ violations # <<>>
    /\ \E i \in 1..Len(stdout) : stdout[i].kind = "found"

(***************************************************************************)
(* C9.  A linter whose catalog holds a pattern that does not compile never *)
(* starts to scan and never returns from a run with a result.              *)
(***************************************************************************)
\* C9: with a pattern that does not compile in the catalog, scan_file never
\* reaches its loop and no run on an existing directory returns
C9_FatalAtConstruction ==
    (\E k \in 1..Len(phi_patterns) : ~Compiles(phi_patterns[k].pattern))
        => (pc # "lines" /\ ~RunReturned)

(***************************************************************************)
(* C10.  A file that cannot be read gives no violation and a message, the  *)
(* files after it are scanned in full, and a run in which no other file    *)
(* gives a violation returns 0.                                            *)
(***************************************************************************)
Unreadable == {i \in 1..Len(fs) : Scanned(i) /\ ~fs[i].readable}
ErrorsOf(path) == {e \in 1..Len(stdout) : stdout[e] = Printed("error", path)}

\* C10: no record names an unreadable file; at the end of a traversal each
\* unreadable file has one message per scan and each later file has all its
\* violations recorded; a run with no violation to find returns 0
C10_ReadFailureSkipsFile ==
    /\ \A i \in Unreadable : RecordsOf(FullPath(<<".">>, fs[i].rel)) = {}
    /\ ScanEnd =>
          \A i \in Unreadable :
             /\ Cardinality(ErrorsOf(PathAt(i))) = ScanCount
             /\ \A j \in (i + 1)..Len(fs) :
                   Cardinality(RecordsOf(PathAt(j))) = ScanCount * Len(ExpectedOfFile(j))
    /\ (RunReturned /\ ExpectedOfTree = <<>>) => exit_code = 0

\* a run has returned whose traversal met a file it could not read and then a
\* file with violations
C10_Witness ==
    /\ RunReturned
    /\ Len(fs) = 2
    /\ 1 \in Unreadable
    /\ ExpectedOfFile(2) # <<>>
    /\ RecordsOf(PathAt(2)) # {}


(***************************************************************************)
(* C11.  run on a directory that does not exist returns non-zero and does  *)
(* nothing else; run returns non-zero only then or with a violation.       *)
(***************************************************************************)
\* a step that is a whole call of run on a directory that does not exist
RunOnMissing == pc = "idle" /\ caller' = "run" /\ calls_left' = calls_left - 1 /\ ~Exists(root')

\* C11: a run on a missing root directory returns a non-zero exit code,
\* starts no scan, writes no report and leaves the violations as they are;
\* and whenever run has returned non-zero the directory was missing or
\* there is a violation
C11_MissingRoot ==
    /\ [](exit_code \notin {0, -1} => (~Exists(root) \/ violations # <<>>))
    /\ [][RunOnMissing => /\ exit_code' \notin {0, -1}
                          /\ pc' = "idle"
                          /\ ScanCount' = ScanCount
                          /\ report' = report
                          /\ violations' = violations]_vars

\* run returned 1 on a missing directory, after a scan that had found
\* violations and with no report written
C11_Witness ==
    /\ caller = "run"
    /\ ~Exists(root)
    /\ exit_code = 1
    /\ pc = "idle"
    /\ violations # <<>>
    /\ report = <<>>

(***************************************************************************)
(* C12.  scan_directory scans every line of the files with an allowed      *)
(* extension that are not under an excluded directory and are not one of   *)
(* the excluded files, and scans no other file.                            *)
(***************************************************************************)
\* path[a..b] is a directory on the way to the file
DirOnPath(path, a, b) ==
    /\ a <= b /\ b < Len(path)
    /\ a = 1 \/ path[a - 1] = "/"
    /\ path[b + 1] = "/"
    /\ \A j \in a..b : path[j] # "/"

UnderExcludedDir(path) ==
    \E a, b \in 1..Len(path) : DirOnPath(path, a, b) /\ SubSeq(path, a, b) \in ExcludedDirs

\* what the claim says of entry i: it is to be scanned
ToBeScanned(i) ==
    /\ fs[i].is_file
    /\ PathSuffix(PathAt(i)) \in ScanSuffixes
    /\ ~UnderExcludedDir(PathAt(i))
    /\ PathName(PathAt(i)) \notin ExcludedFiles

\* C12: scan_file is at work only on a file that is to be scanned, it ends
\* past the last line of the file, and the traversal steps over no file
\* that is to be scanned
C12_ScansAllowedFiles ==
    /\ [](pc \in {"lines", "collect"} => ToBeScanned(idx))
    /\ [](pc = "collect" => line_num > Len(fs[idx].lines))
    /\ [][(pc = "walk" /\ idx <= Len(fs) /\ pc' = "walk") => ~ToBeScanned(idx)]_vars

(***************************************************************************)
(* C13.  A run on a tree whose files are all under an excluded directory   *)
(* finds nothing, writes the report of no violation and returns 0.         *)
(***************************************************************************)
AllExcluded == \A i \in 1..Len(fs) : fs[i].is_file => UnderExcludedDir(PathAt(i))

\* C13: when run has returned on a tree whose files all lie under an
\* excluded directory, there is no violation, the report is the line
\* 'No PHI violations detected.' and the exit code is 0
C13_OnlyExcluded ==
    (RunReturned /\ AllExcluded) =>
        /\ violations = <<>>
        /\ report = <<<<"N","o"," ","P","H","I"," ","v","i","o","l","a","t","i","o","n","s"," ","d","e","t","e","c","t","e","d",".","\n">>>>
        /\ exit_code = 0

\* run has returned on a tree with a file under build/ that holds a line on
\* which rules match
C13_Witness ==
    /\ RunReturned
    /\ AllExcluded
    /\ \E i \in 1..Len(fs) :
          /\ fs[i].is_file /\ fs[i].readable
          /\ PathSuffix(PathAt(i)) \in ScanSuffixes
          /\ \E n \in 1..Len(fs[i].lines) : Occurrences(fs[i].lines[n]) # {}

(***************************************************************************)
(* C14.  The line 'Patient ID: 48213' in Controller.kt gives one           *)
(* violation, of category medical_ids.                                     *)
(***************************************************************************)
\* scan_file has ended on a Controller.kt that holds the one line
ControllerScanned ==
    /\ pc = "collect"
    /\ PathName(PathAt(idx)) = <<"C","o","n","t","r","o","l","l","e","r",".","k","t">>
    /\ Len(lines) = 1
    /\ Strip(lines[1]) = <<"P","a","t","i","e","n","t"," ","I","D",":"," ","4","8","2","1","3">>

\* C14: scan_file returns for that file the one violation of line 1,
\* category medical_ids, message 'Potential medical_ids: Patient ID: 48213'
C14_OneViolation ==
    ControllerScanned =>
        found = << <<1, <<"m","e","d","i","c","a","l","_","i","d","s">>, <<"P","o","t","e","n","t","i","a","l"," ","m","e","d","i","c","a","l","_","i","d","s",":"," ","P","a","t","i","e","n","t"," ","I","D",":"," ","4","8","2","1","3">>>> >>

(***************************************************************************)
(* C15.  Two rules that match the same substring of a line get the same    *)
(* answer from the filter and, when accepted, a violation each, with the   *)
(* category of its own rule.                                               *)
(***************************************************************************)
\* filter calls a and b of the line just scanned are of two rules on the
\* same substring
SameSubstring(a, b) ==
    /\ asked[a].rule # asked[b].rule
    /\ asked[a].start = asked[b].start
    /\ asked[a].match = asked[b].match

\* the violation the claim expects of an accepted call on line n
TupleOfCall(c, n) == <<n, c.category, <<"P","o","t","e","n","t","i","a","l"," ">> \o c.category \o <<":"," ">> \o c.match>>

\* C15: for two rules on the same substring of the line just scanned the
\* filter decided alike, and when it accepted, the violations of the line
\* hold the tuple of each of the two as many times as accepted calls give it
C15_NoDeduplication ==
    LineDone =>
        LET n == line_num - 1
            ofLine == {i \in 1..Len(found) : found[i][1] = n}
        IN \A a, b \in 1..Len(asked) :
              SameSubstring(a, b) =>
                 /\ asked[a].rejected = asked[b].rejected
                 /\ ~asked[a].rejected =>
                       \A t \in {TupleOfCall(asked[a], n), TupleOfCall(asked[b], n)} :
                          Cardinality({i \in ofLine : found[i] = t})
                             = Cardinality({c \in 1..Len(asked) :
                                   ~asked[c].rejected /\ TupleOfCall(asked[c], n) = t})

\* on the line just scanned two rules of different categories matched the
\* same substring, both were accepted and both violations are in the list
C15_Witness ==
    /\ LineDone
    /\ \E a, b \in 1..Len(asked) :
          /\ SameSubstring(a, b)
          /\ asked[a].category # asked[b].category
          /\ ~asked[a].rejected /\ ~asked[b].rejected
          /\ \E i, j \in 1..Len(found) :
                /\ i # j
                /\ found[i] = TupleOfCall(asked[a], line_num - 1)
                /\ found[j] = TupleOfCall(asked[b], line_num - 1)

(***************************************************************************)
(* C16.  A violation of scan_file is the number of its line, counted from  *)
(* 1, the category of the rule that matched and the message 'Potential     *)
(* <category>: <match>'; scan_directory records '<file>:<line> - <message>'.*)
(***************************************************************************)
\* occurrence o of the line gives the category and the message
CarriedBy(line, o, category, message) ==
    /\ category = LoadPhiPatterns[o[1]].category
    /\ message = <<"P","o","t","e","n","t","i","a","l"," ">> \o category \o <<":"," ">> \o OccText(line, o)

\* the record of occurrence o on line n of entry j
RecordOf(j, n, o) ==
    LET category == LoadPhiPatterns[o[1]].category
    IN FullPath(<<".">>, fs[j].rel) \o <<":">> \o Dec(n) \o <<" ","-"," ">>
          \o <<"P","o","t","e","n","t","i","a","l"," ">> \o category \o <<":"," ">> \o OccText(fs[j].lines[n], o)

\* C16: each tuple of scan_file's list has the number of a line of the file,
\* from 1 on, and the category and message of a match on that line; each
\* record of the linter's list is '<file>:<line> - <message>' of a match on
\* a line of a file of the tree
C16_ViolationContent ==
    /\ \A i \in 1..Len(found) :
          /\ found[i][1] \in 1..Len(lines)
          /\ \E o \in Occurrences(lines[found[i][1]]) :
                CarriedBy(lines[found[i][1]], o, found[i][2], found[i][3])
    /\ \A i \in 1..Len(violations) :
          \E j \in 1..Len(fs) : \E n \in 1..Len(fs[j].lines) :
             \E o \in Occurrences(fs[j].lines[n]) : violations[i] = RecordOf(j, n, o)

\* the list holds the record of a match on the second line of a file, and
\* scan_file's list the tuple it was made from
C16_Witness ==
    /\ pc = "walk"
    /\ \E j \in 1..Len(fs) :
          /\ Len(fs[j].lines) >= 2
          /\ \E o \in Occurrences(fs[j].lines[2]) :
                /\ \E i \in 1..Len(violations) : violations[i] = RecordOf(j, 2, o)
                /\ \E i \in 1..Len(found) :
                      found[i][1] = 2 /\ CarriedBy(fs[j].lines[2], o, found[i][2], found[i][3])

(***************************************************************************)
(* C17.  The total of a report is the number of records it lists, which is *)
(* the length of the list of violations; so is the count run prints; the   *)
(* report of no violation is written exactly when the list is empty.       *)
(***************************************************************************)
\* the report was written from the list of violations as it is now
ReportWritten == pc = "exit" \/ ReportIsLast

\* the records a report lists: its writes between the heading and the total
Listed == IF Len(report) >= 3 THEN SubSeq(report, 3, Len(report) - 1) ELSE <<>>

\* C17: a report just written is the line of no violation exactly when the
\* list is empty; otherwise it lists the records of the list, one write
\* each, and ends with their number as total; the last line run printed
\* gives the same number
C17_TotalIsCount ==
    /\ ReportWritten =>
          /\ report = <<<<"N","o"," ","P","H","I"," ","v","i","o","l","a","t","i","o","n","s"," ","d","e","t","e","c","t","e","d",".","\n">>>> <=> Len(violations) = 0
          /\ Len(violations) > 0 =>
                /\ Len(Listed) = Len(violations)
                /\ \A i \in 1..Len(violations) : Listed[i] = violations[i] \o <<"\n">>
                /\ report[Len(report)] = <<"\n","T","o","t","a","l"," ","v","i","o","l","a","t","i","o","n","s",":"," ">> \o Dec(Len(Listed)) \o <<"\n">>
    /\ RunReturned =>
          stdout[Len(stdout)] = IF Len(violations) = 0 THEN Printed("none", 0)
                                ELSE Printed("found", Len(violations))

\* run has returned with a report of a list in which a record occurs twice
C17_Witness ==
    /\ RunReturned
    /\ Len(Listed) = Len(violations)
    /\ \E i, j \in 1..Len(violations) : i < j /\ violations[i] = violations[j]

(***************************************************************************)
(* C18.  scan_file leaves the linter as it found it, and called again on   *)
(* the same file it returns the same list.                                 *)
(***************************************************************************)
\* a step of scan_file: its start on a file, or a line of its loop
ScanFileStep == pc = "lines" \/ (pc = "walk" /\ pc' \in {"lines", "collect"})

\* what the scan before this one recorded for the file at hand
RecordedBefore == SelectSeq(violations, LAMBDA r : StartsWith(r, PathAt(idx) \o <<":">>))

\* the records of the list scan_file has returned
ReturnedNow ==
    [i \in 1..Len(found) |-> PathAt(idx) \o <<":">> \o Dec(found[i][1]) \o <<" ","-"," ">> \o found[i][3]]

\* C18: no step of scan_file changes the violations, the catalog or the
\* exclusion sets of the linter, and what scan_file returns for a file in
\* the second scan is what it returned for that file in the first
C18_ScanFileReinvocable ==
    /\ [][ScanFileStep => (violations' = violations /\ linter' = linter)]_vars
    /\ []((pc = "collect" /\ ScanCount = 2) => ReturnedNow = RecordedBefore)

\* scan_file has returned a second time for the second file of the tree,
\* with violations, after violations of the first file
C18_Witness ==
    /\ pc = "collect"
    /\ ScanCount = 2
    /\ idx = 2
    /\ found # <<>>
    /\ Len(violations) > Len(RecordedBefore)
    /\ RecordedBefore # <<>>

(***************************************************************************)
(* C19.  Calls of scan_file for different files, interleaved on one        *)
(* linter, write nothing they share and return what they return when run   *)
(* one after another.                                                      *)
(***************************************************************************)
\* thread t takes a step of scan_file
WorkerScans(t) ==
    /\ workers'[t] # workers[t]
    /\ \/ workers[t].pc = "lines"
       \/ workers[t].pc = "next" /\ workers'[t].pc \in {"lines", "append"}

\* scan_file has just returned in thread t
WorkerReturned(t) == workers[t].pc = "append" /\ workers[t].k = 1

\* the records of the list scan_file returned in thread t
WorkerResult(t) ==
    LET w == workers[t]
    IN [i \in 1..Len(w.found) |->
          PathAt(w.idx) \o <<":">> \o Dec(w.found[i][1]) \o <<" ","-"," ">> \o w.found[i][3]]

\* C19: a step of scan_file in one thread leaves the linter's violations,
\* catalog and exclusion sets and the locals of every other thread as they
\* are, and whatever the interleaving scan_file returns for a file the
\* violations of that file in the order of a scan on its own
C19_InterleavedScanFile ==
    /\ [][\A t \in 1..NumWorkers :
             WorkerScans(t) => /\ violations' = violations
                               /\ linter' = linter
                               /\ \A u \in 1..NumWorkers : u # t => workers'[u] = workers[u]]_vars
    /\ [](\A t \in 1..NumWorkers :
             WorkerReturned(t) => WorkerResult(t) = ExpectedOfFile(workers[t].idx))

\* scan_file has returned violations in the second thread while the first
\* is in the middle of its file with a violation found
C19_Witness ==
    /\ WorkerReturned(2)
    /\ workers[2].found # <<>>
    /\ workers[1].pc = "lines"
    /\ workers[1].line_num = 2
    /\ Len(workers[1].lines) >= 2
    /\ workers[1].found # <<>>

(***************************************************************************)
(* C20.  Producers that add to one linter concurrently leave the list in   *)
(* the order of the traversal whatever the scheduling.                     *)
(***************************************************************************)
WorkersDone == \A t \in 1..NumWorkers : workers[t].pc = "done"

\* C20: when all threads are done the list of violations is in the order
\* of the traversal, file by file and in a file by line number
C20_DeterministicOrder == WorkersDone => violations = ExpectedOfTree

(***************************************************************************)
(* C21.  The five conditions of the filter give the same answer in any     *)
(* order, short-circuited or not.                                          *)
(***************************************************************************)
\* the five conditions of a filter call, in the order of the program
ConditionsOf(c) ==
    <<CommentLine(c.line), TestData(c.match, c.path), ConfigData(c.match, c.path),
      RegexLine(c.line), PatternLine(c.line)>>

\* the conditions taken in the given order from the k-th on, the first that
\* holds ending the evaluation
RECURSIVE FirstTrueWins(_, _, _)
FirstTrueWins(conds, order, k) ==
    IF k > Len(conds) THEN FALSE
    ELSE IF conds[order[k]] THEN TRUE
    ELSE FirstTrueWins(conds, order, k + 1)

\* all conditions evaluated in the given order, then joined
RECURSIVE AllEvaluated(_, _, _)
AllEvaluated(conds, order, k) ==
    IF k > Len(conds) THEN FALSE
    ELSE LET rest == AllEvaluated(conds, order, k + 1)
         IN conds[order[k]] \/ rest

\* C21: for every filter call and every order of the five conditions, the
\* answer of the filter is the answer of the conditions evaluated in that
\* order, with short-circuit and without
C21_OrderIndependent ==
    \A c \in SetOf(asked) :
        LET conds == ConditionsOf(c)
        IN \A order \in Permutations(1..5) :
              /\ FirstTrueWins(conds, order, 1) = c.rejected
              /\ AllEvaluated(conds, order, 1) = c.rejected

\* the filter rejected a match that meets the last condition alone, in a
\* configuration file, and accepted another
C21_Witness ==
    /\ \E c \in SetOf(asked) :
          /\ c.rejected
          /\ ConditionsOf(c) = <<FALSE, FALSE, FALSE, FALSE, TRUE>>
          /\ PathSuffix(c.path) \in ConfigSuffixes
    /\ pc = "walk"

(***************************************************************************)
(* C22.  The report a run writes is not scanned by a later run over the    *)
(* same tree: scan_file is never at work on a file named                   *)
(* phi_violations.txt or phi_linter.py, and no record of the list names    *)
(* the path of such a file.                                                *)
(***************************************************************************)
OwnFiles == {<<"p","h","i","_","v","i","o","l","a","t","i","o","n","s",".","t","x","t">>, <<"p","h","i","_","l","i","n","t","e","r",".","p","y">>}

C22_OwnFilesNotScanned ==
    /\ (pc \in {"lines", "collect"}) => PathName(PathAt(idx)) \notin OwnFiles
    /\ \A i \in 1..Len(fs) :
          PathName(fs[i].rel) \in OwnFiles =>
              \A r \in 1..Len(violations) : ~StartsWith(violations[r], fs[i].rel \o <<":">>)

\* a second run has gone past the report file, which holds the report of
\* the first run with a line the catalog matches
C22_Witness ==
    /\ caller = "run"
    /\ calls_left = 0
    /\ ScanCount = 2
    /\ pc = "walk"
    /\ violations # <<>>
    /\ \E i \in 1..Len(fs) :
          /\ i < idx
          /\ fs[i].rel = OutputFile
          /\ fs[i].lines = SplitLines(FileText(report))
          /\ \E n \in 1..Len(fs[i].lines) :
                \E k \in 1..Len(PatternSource) : Matches(fs[i].lines[n])[k] # <<>>

(***************************************************************************)
(* C23.  The list of violations only grows: every step of scan_directory,  *)
(* generate_report and run leaves the records it held in place, in front   *)
(* of what it adds, and a second scan of the same tree ends with the       *)
(* result of the first scan twice.                                         *)
(***************************************************************************)
KeepsRecords ==
    /\ Len(violations') >= Len(violations)
    /\ SubSeq(violations', 1, Len(violations)) = violations

C23_AppendOnly ==
    /\ [][KeepsRecords]_vars
    /\ []((pc = "idle" /\ ScanCount = 2) => violations = FirstScan \o FirstScan)

\* a second scan has ended on a tree that gave violations the first time
C23_Witness ==
    /\ pc = "idle"
    /\ ScanCount = 2
    /\ FirstScan # <<>>
    /\ Len(violations) = 2 * Len(FirstScan)

(***************************************************************************)
(* C24.  A file is skipped whenever the text of its full path, the root    *)
(* given to run included, holds the name of an excluded directory          *)
(* anywhere: scan_file is never at work on such a file and no record names *)
(* it; when the root itself holds such a name, nothing is scanned and run  *)
(* returns 0.                                                              *)
(***************************************************************************)
HoldsExcludedName(path) ==
    \E d \in {<<".","g","i","t">>, <<".","g","r","a","d","l","e">>, <<"b","u","i","l","d">>, <<"n","o","d","e","_","m","o","d","u","l","e","s">>, <<".","i","d","e","a">>,
              <<"v","e","n","v">>, <<"_","_","p","y","c","a","c","h","e","_","_">>, <<".","p","y","t","e","s","t","_","c","a","c","h","e">>, <<"t","a","r","g","e","t">>} :
        \E i \in 1..Len(path) : i + Len(d) - 1 <= Len(path) /\ SubSeq(path, i, i + Len(d) - 1) = d

C24_SubstringExclusion ==
    /\ pc \in {"lines", "collect"} => ~HoldsExcludedName(PathAt(idx))
    /\ \A i \in 1..Len(fs) :
          (Exists(root) /\ HoldsExcludedName(PathAt(i))) => RecordsOf(PathAt(i)) = {}
    /\ (RunReturned /\ HoldsExcludedName(root)) =>
          /\ violations = <<>>
          /\ exit_code = 0
          /\ \A i \in 1..Len(stdout) : stdout[i].kind \notin {"warn", "error"}

\* run has returned 0 for a root named rebuild whose tree has a file that a
\* clean root would have had scanned, with a line the catalog matches
C24_Witness ==
    /\ RunReturned
    /\ root = <<"r","e","b","u","i","l","d">>
    /\ exit_code = 0
    /\ \E i \in 1..Len(fs) :
          /\ fs[i].is_file /\ fs[i].readable
          /\ ~HoldsExcludedName(fs[i].rel)
          /\ Eligible(fs[i], fs[i].rel, ExcludedDirs, ExcludedFiles)
          /\ \E n \in 1..Len(fs[i].lines) : Occurrences(fs[i].lines[n]) # {}

LineLevel(line) == CommentLine(line) \/ RegexLine(line) \/ PatternLine(line)

TestFile(path) == ContainsCI(PathName(path), <<"t","e","s","t">>)

ConfigFile(path) == PathSuffix(path) \in {<<".","y","m","l">>, <<".","y","a","m","l">>, <<".","j","s","o","n">>, <<".","x","m","l">>}

HasWord(s, words) == \E w \in words : ContainsCI(s, w)

C25_WordsInMatchOnly ==
    LineDone =>
        \A i \in 1..Len(asked) :
            LET c == asked[i]
            IN (/\ ~LineLevel(c.line)
                /\ TestFile(c.path) => ~HasWord(c.match, {<<"t","e","s","t">>, <<"e","x","a","m","p","l","e">>, <<"s","a","m","p","l","e">>})
                /\ ConfigFile(c.path) => ~HasWord(c.match, {<<"c","o","n","f","i","g">>, <<"e","x","a","m","p","l","e">>, <<"t","e","m","p","l","a","t","e">>}))
               => /\ ~c.rejected
                  /\ \E v \in 1..Len(found) : found[v] = TupleOfCall(c, line_num - 1)

\* in a test file, a match without the words of test data was reported from
\* a line that holds one of them
C25_Witness ==
    /\ LineDone
    /\ \E i \in 1..Len(asked) :
          /\ TestFile(asked[i].path)
          /\ ~LineLevel(asked[i].line)
          /\ HasWord(asked[i].line, {<<"t","e","s","t">>, <<"e","x","a","m","p","l","e">>, <<"s","a","m","p","l","e">>})
          /\ ~HasWord(asked[i].match, {<<"t","e","s","t">>, <<"e","x","a","m","p","l","e">>, <<"s","a","m","p","l","e">>})
          /\ ~asked[i].rejected
          /\ \E v \in 1..Len(found) : found[v] = TupleOfCall(asked[i], line_num - 1)

\* the same in a configuration file
C25_WitnessConfig ==
    /\ LineDone
    /\ \E i \in 1..Len(asked) :
          /\ ConfigFile(asked[i].path)
          /\ ~TestFile(asked[i].path)
          /\ ~LineLevel(asked[i].line)
          /\ HasWord(asked[i].line, {<<"c","o","n","f","i","g">>, <<"e","x","a","m","p","l","e">>, <<"t","e","m","p","l","a","t","e">>})
          /\ ~HasWord(asked[i].match, {<<"c","o","n","f","i","g">>, <<"e","x","a","m","p","l","e">>, <<"t","e","m","p","l","a","t","e">>})
          /\ ~asked[i].rejected

(***************************************************************************)
(* C26.  When the matching of a line raises, here on a pattern of the      *)
(* catalog that does not compile, scan_file returns what it found before:  *)
(* the violations of the rules before the failing one on the first line.   *)
(* The other lines of the file are not scanned, the violations returned    *)
(* are recorded, and the traversal goes on with the next file.             *)
(***************************************************************************)
FailingRule == CHOOSE k \in 1..Len(phi_patterns) : ~Compiles(phi_patterns[k].pattern)

\* what the file gives up to the exception
FoundBeforeRaise(i) ==
    IF Scanned(i) /\ fs[i].readable /\ fs[i].lines # <<>>
    THEN Concat([r \in 1..(FailingRule - 1) |-> ExpectedOfRule(i, 1, r)])
    ELSE <<>>

C26_PartialResultKept ==
    /\ (pc = "collect" /\ fs[idx].readable /\ lines # <<>>) =>
          /\ line_num = 1
          /\ ReturnedNow = FoundBeforeRaise(idx)
          /\ stdout[Len(stdout)] = Printed("error", PathAt(idx))
    /\ pc = "walk" =>
          violations = Concat([i \in 1..(IF idx > Len(fs) THEN Len(fs) ELSE idx - 1) |->
                                 FoundBeforeRaise(i)])

\* the traversal has ended: the first file gave violations on its first
\* line before the exception and has a second line the catalog matches, and
\* the file after it gave violations too
C26_Witness ==
    /\ ScanEnd
    /\ Len(fs) = 2
    /\ FoundBeforeRaise(1) # <<>>
    /\ Len(fs[1].lines) >= 2
    /\ Occurrences(fs[1].lines[2]) # {}
    /\ FoundBeforeRaise(2) # <<>>
    /\ Len(violations) = Len(FoundBeforeRaise(1)) + Len(FoundBeforeRaise(2))

(***************************************************************************)
(* C28.  An SBOMValidator never empties its lists of errors and warnings:  *)
(* each step keeps what they held.  validate_sbom returns True only with   *)
(* an empty list of errors, so a call made when the list holds an error    *)
(* returns False, whatever file it is given.                               *)
(***************************************************************************)
KeepsLists ==
    /\ Len(errors') >= Len(errors) /\ SubSeq(errors', 1, Len(errors)) = errors
    /\ Len(warnings') >= Len(warnings) /\ SubSeq(warnings', 1, Len(warnings)) = warnings

Returns == Len(returned') = Len(returned) + 1

C28_ErrorsStick ==
    /\ [][KeepsLists]_vars
    /\ [][Returns => (returned'[Len(returned')] => errors' = <<>>)]_vars
    /\ [][(Returns /\ errors # <<>>) => ~returned'[Len(returned')]]_vars

\* a call on a file without serialNumber has returned False, and so has the
\* call on the valid file after it, which added no error
C28_Witness ==
    /\ sbom_files = <<"noserial.json", "valid.json">>
    /\ returned = <<FALSE, FALSE>>
    /\ sbom_pc = "idle"
    /\ errors = <<<<"M","i","s","s","i","n","g"," ","r","e","q","u","i","r","e","d"," ","f","i","e","l","d",":"," ","s","e","r","i","a","l","N","u","m","b","e","r">>>>

(***************************************************************************)
(* C29.  PrivacyPolicyChecker.run returns 0 exactly when the three checks  *)
(* pass: the policy URL is accessible, the consent copy is on a par with   *)
(* the policy, and the Play Store listing has the policy.  The overall     *)
(* compliance is the conjunction of the three, so run returns 1 as soon as *)
(* one of them fails.                                                      *)
(***************************************************************************)
AllThreePass ==
    /\ compliance.privacy_policy_check.accessible
    /\ compliance.consent_parity_check.parity_check
    /\ compliance.play_store_check.privacy_policy_found

C29_ExitZeroIffAllPass ==
    /\ \A a, p, f \in BOOLEAN : OverallCompliance(a, p, f) = (a /\ p /\ f)
    /\ checker_pc \in {"save_evidence", "summary", "returned"} =>
          compliance.overall_compliance = AllThreePass
    /\ checker_pc = "returned" =>
          /\ checker_exit \in {0, 1}
          /\ checker_exit = 0 <=> AllThreePass
    /\ checker_pc # "returned" => checker_exit = -1

\* run has returned 1 with one check failed, the parity check, and the two
\* others passed
C29_Witness ==
    /\ checker_pc = "returned"
    /\ checker_exit = 1
    /\ compliance.privacy_policy_check.accessible
    /\ ~compliance.consent_parity_check.parity_check
    /\ compliance.play_store_check.privacy_policy_found
=============================================================================
